---- MODULE Spec2Model ----
(***************************************************************************)
(* Model of src/src/github/utils.ts: the comment-thread view synchronizer  *)
(* (createVSCodeCommentThread, updateCommentThreadLabel,                   *)
(* updateCommentReactions, updateCommentReviewState,                       *)
(* updateCommentCommands) and the REST / GraphQL normalizers.              *)
(*                                                                         *)
(* JavaScript values are encoded as follows.  A string-valued optional     *)
(* field holds the string Undefined when it is undefined.  An optional     *)
(* boolean is None (<<>>) when undefined and Some(b) (<<b>>) otherwise, so *)
(* that truthiness (`if (x)`, `!!x`, `x || false`) is computed, not        *)
(* assumed.                                                                *)
(***************************************************************************)
EXTENDS Integers, Sequences, FiniteSets, TLC

VARIABLES
    threads,    \* thread id -> the editor-side comment thread object
    lastOp,     \* the synchronizer call that ran last, and how it ended
    fetches,    \* reaction fetches in flight, each tagged with its issue order
    arrivals,   \* the reaction fetches that completed, in arrival order
    input,      \* the payload handed to a normalizer
    output,     \* what the normalizer returned for it
    emitter,    \* an event emitter: its listeners and the events it fired
    promise,    \* the promise promiseFromEvent returned for the emitter's event
    provider,   \* the fields of the PullRequestsTreeDataProvider
    workbench   \* what the editor holds for the tree: settings, nodes, last call

vars == <<threads, lastOp, fetches, arrivals, input, output, emitter, promise,
          provider, workbench>>

(***************************************************************************)
(* Bounds of the model.                                                    *)
(***************************************************************************)
MaxComments == 3
MaxCapComments == 2
MaxFetchComments == 2
MaxGen == 2
MaxReviewComments == 2
MaxEvents == 3
MaxReactionGroups == 2
MaxFires == 3
MaxSiblingComments == 1
MaxRoots == 2

(***************************************************************************)
(* JavaScript value encoding.                                              *)
(***************************************************************************)
Undefined == "undefined"
None == <<>>
Some(b) == <<b>>
Truthy(v) == v = Some(TRUE)

\* Array.prototype.map is written [i \in DOMAIN s |-> ...] and
\* Array.prototype.filter is SelectSeq.

\* Array.prototype.join on an array of strings.
RECURSIVE Join(_, _)
Join(s, sep) ==
    IF s = <<>> THEN ""
    ELSE IF Len(s) = 1 THEN s[1]
    ELSE s[1] \o sep \o Join(Tail(s), sep)

\* uniqBy of common/utils: keeps, in order, the first element for each key;
\* keys[i] is fn(arr[i]).
uniqBy(arr, keys) ==
    LET keep(i) == \A j \in 1..(i - 1) : keys[j] # keys[i]
        RECURSIVE from(_)
        from(i) == IF i > Len(arr) THEN <<>>
                   ELSE (IF keep(i) THEN <<arr[i]>> ELSE <<>>) \o from(i + 1)
    IN from(1)

(***************************************************************************)
(* Canonical comments (common/comment Comment) the synchronizer is fed.    *)
(***************************************************************************)
Users == {"A", "B"}

Account(login, avatarUrl) ==
    [login |-> login, url |-> "https://host/" \o login, avatarUrl |-> avatarUrl]

RawComment(id, login, isDraft, canEdit, canDelete, reactions) ==
    [id |-> id, body |-> "body", user |-> Account(login, Undefined),
     isDraft |-> isDraft, canEdit |-> canEdit, canDelete |-> canDelete,
     reactions |-> reactions]

\* Comment.reactions is optional: absent, or a list of Reaction.
NoReactions == [present |-> FALSE, items |-> <<>>]
Reactions(items) == [present |-> TRUE, items |-> items]

\* The comments threads are built from: both users, draft and published.
ThreadComments ==
    { RawComment(1, u, d, None, None, NoReactions) :
        u \in Users, d \in {Some(TRUE), Some(FALSE)} }

(***************************************************************************)
(* The synchronizer's functions.                                           *)
(***************************************************************************)
ReactionToVSCode(r) ==
    [label |-> r.label, hasReacted |-> r.viewerHasReacted, count |-> r.count,
     iconPath |-> r.icon]

\* convertToVSCodeComment labelling every comment as pending.
convertToVSCodeCommentAlwaysPending(comment, command) ==
    [_rawComment |-> comment,
     commentId |-> ToString(comment.id),
     body |-> comment.body,
     selectCommand |-> command,
     userName |-> comment.user.login,
     userIconPath |-> IF comment.user.avatarUrl # Undefined
                      THEN comment.user.avatarUrl ELSE Undefined,
     label |-> "Pending",
     commentReactions |-> IF comment.reactions.present
                          THEN [i \in DOMAIN comment.reactions.items |->
                                    ReactionToVSCode(comment.reactions.items[i])]
                          ELSE <<>>,
     editCommand |-> Undefined,
     deleteCommand |-> Undefined]

convertToVSCodeComment(comment, command) ==
    [_rawComment |-> comment,
     commentId |-> ToString(comment.id),
     body |-> comment.body,
     selectCommand |-> command,
     userName |-> comment.user.login,
     userIconPath |-> IF comment.user.avatarUrl # Undefined
                      THEN comment.user.avatarUrl ELSE Undefined,
     label |-> IF Truthy(comment.isDraft) THEN "Pending" ELSE Undefined,
     commentReactions |-> IF comment.reactions.present
                          THEN [i \in DOMAIN comment.reactions.items |->
                                    ReactionToVSCode(comment.reactions.items[i])]
                          ELSE <<>>,
     editCommand |-> Undefined,
     deleteCommand |-> Undefined]

\* updateCommentThreadLabel without its dedup step: one entry per comment.
updateCommentThreadLabelNoDedup(thread) ==
    IF Len(thread.comments) # 0
    THEN LET at == [i \in DOMAIN thread.comments |-> "@" \o thread.comments[i].userName]
         IN [thread EXCEPT !.label = "Participants: " \o Join(at, ", ")]
    ELSE [thread EXCEPT !.label = "Start discussion"]

\* updateCommentThreadLabel with the branches of its length test swapped.
updateCommentThreadLabelSwapped(thread) ==
    IF Len(thread.comments) = 0
    THEN LET at == [i \in DOMAIN thread.comments |-> "@" \o thread.comments[i].userName]
         IN [thread EXCEPT !.label = "Participants: " \o Join(at, ", ")]
    ELSE [thread EXCEPT !.label = "Start discussion"]

\* updateCommentThreadLabel writing the label only while the thread has none.
updateCommentThreadLabelOnce(thread) ==
    IF thread.label # Undefined THEN thread
    ELSE IF Len(thread.comments) # 0
    THEN LET userName == [i \in DOMAIN thread.comments |-> thread.comments[i].userName]
             uniq == uniqBy(thread.comments, userName)
             participantsList ==
                 Join([i \in DOMAIN uniq |-> "@" \o uniq[i].userName], ", ")
         IN [thread EXCEPT !.label = "Participants: " \o participantsList]
    ELSE [thread EXCEPT !.label = "Start discussion"]

updateCommentThreadLabel(thread) ==
    IF Len(thread.comments) # 0
    THEN LET userName == [i \in DOMAIN thread.comments |-> thread.comments[i].userName]
             uniq == uniqBy(thread.comments, userName)
             participantsList ==
                 Join([i \in DOMAIN uniq |-> "@" \o uniq[i].userName], ", ")
         IN [thread EXCEPT !.label = "Participants: " \o participantsList]
    ELSE [thread EXCEPT !.label = "Start discussion"]

\* A comment object that did not come from convertToVSCodeComment carries no
\* _rawComment; reading a field of it throws a TypeError.
NoRaw == [missing |-> TRUE]
HasRaw(comment) == comment._rawComment # NoRaw

Min(S) == CHOOSE x \in S : \A y \in S : x <= y
Max(S) == CHOOSE x \in S : \A y \in S : x >= y

\* The comments the callback of `comments.map` got through before one threw:
\* all of them when none throws.
\* `throwing` is the set of indices at which the callback throws.
Reached(comments, throwing) ==
    IF throwing = {} THEN Len(comments) ELSE Min(throwing) - 1

\* updateCommentReactions merging into the displayed list instead of
\* replacing it.
updateCommentReactionsMerge(comment, reactions) ==
    [comment EXCEPT !.commentReactions =
        @ \o [i \in DOMAIN reactions |-> ReactionToVSCode(reactions[i])]]

\* updateCommentReactions also clearing the comment's label.
updateCommentReactionsResetLabel(comment, reactions) ==
    [comment EXCEPT !.commentReactions =
                        [i \in DOMAIN reactions |-> ReactionToVSCode(reactions[i])],
                    !.label = Undefined]

updateCommentReactions(comment, reactions) ==
    [comment EXCEPT !.commentReactions =
        [i \in DOMAIN reactions |-> ReactionToVSCode(reactions[i])]]

\* updateCommentReviewState marking every comment as pending when draft mode
\* is entered.
updateCommentReviewStateMarkPending(thread, newDraftMode) ==
    LET throwing == {i \in DOMAIN thread.comments : ~HasRaw(thread.comments[i])}
        n == Reached(thread.comments, throwing)
        patched(c) == [c EXCEPT !._rawComment.isDraft = Some(newDraftMode),
                                !.label = IF newDraftMode THEN "Pending" ELSE Undefined]
    IN [thread |-> [thread EXCEPT !.comments =
                       [i \in 1..Len(thread.comments) |->
                           IF i <= n THEN patched(thread.comments[i])
                           ELSE thread.comments[i]]],
        fault |-> n < Len(thread.comments)]

\* updateCommentReviewState clearing the draft flag but leaving the label.
updateCommentReviewStateKeepLabel(thread, newDraftMode) ==
    IF newDraftMode THEN [thread |-> thread, fault |-> FALSE]
    ELSE LET patched(c) == [c EXCEPT !._rawComment.isDraft = Some(FALSE)]
         IN [thread |-> [thread EXCEPT !.comments =
                            [i \in DOMAIN thread.comments |-> patched(thread.comments[i])]],
             fault |-> FALSE]

\* updateCommentReviewState ignoring a thread that has been disposed.
updateCommentReviewStateIfLive(thread, newDraftMode) ==
    IF newDraftMode \/ thread.status = "Disposed"
    THEN [thread |-> thread, fault |-> FALSE]
    ELSE [thread |-> [thread EXCEPT !.comments =
                        [i \in DOMAIN thread.comments |->
                            [thread.comments[i] EXCEPT
                                !._rawComment.isDraft = Some(FALSE),
                                !.label = Undefined]]],
          fault |-> FALSE]

\* updateCommentReviewState made all-or-nothing: a call that throws leaves
\* every comment as it was.
updateCommentReviewStateAllOrNothing(thread, newDraftMode) ==
    IF newDraftMode THEN [thread |-> thread, fault |-> FALSE]
    ELSE LET throwing == {i \in DOMAIN thread.comments : ~HasRaw(thread.comments[i])}
             patched(c) == [c EXCEPT !._rawComment.isDraft = Some(FALSE),
                                     !.label = Undefined]
         IN IF throwing # {} THEN [thread |-> thread, fault |-> TRUE]
            ELSE [thread |-> [thread EXCEPT !.comments =
                                [i \in DOMAIN thread.comments |->
                                    patched(thread.comments[i])]],
                  fault |-> FALSE]

\* The comment objects are patched in place, one after the other: when the
\* callback throws at a comment, the earlier ones keep their patch, and the
\* assignment to thread.comments (of the same objects) never runs.
updateCommentReviewState(thread, newDraftMode) ==
    IF newDraftMode THEN [thread |-> thread, fault |-> FALSE]
    ELSE LET throwing == {i \in DOMAIN thread.comments : ~HasRaw(thread.comments[i])}
             n == Reached(thread.comments, throwing)
             patched(c) == [c EXCEPT !._rawComment.isDraft = Some(FALSE),
                                     !.label = Undefined]
         IN [thread |-> [thread EXCEPT !.comments =
                            [i \in 1..Len(thread.comments) |->
                                IF i <= n THEN patched(thread.comments[i])
                                ELSE thread.comments[i]]],
             fault |-> n < Len(thread.comments)]

\* getEditCommand / getDeleteCommand / getAcceptInputCommands of ./commands.
getEditCommand == "pr.editComment"
getDeleteCommand == "pr.deleteComment"
getAcceptInputCommands(inDraftMode, supportsGraphQl) ==
    [acceptInputCommand |-> "pr.replyComment",
     additionalCommands |->
        IF ~supportsGraphQl THEN <<>>
        ELSE IF inDraftMode THEN <<"pr.deleteReview", "pr.finishReview">>
        ELSE <<"pr.startReview">>]

updateCommentCommandsThrows(vscodeComment, commentControl, pullRequestModel) ==
    commentControl /\ pullRequestModel /\ ~HasRaw(vscodeComment)

updateCommentCommands(vscodeComment, commentControl, pullRequestModel) ==
    IF commentControl /\ pullRequestModel /\ HasRaw(vscodeComment)
    THEN LET withEdit ==
                 IF Truthy(vscodeComment._rawComment.canEdit)
                 THEN [vscodeComment EXCEPT !.editCommand = getEditCommand]
                 ELSE vscodeComment
         IN IF Truthy(vscodeComment._rawComment.canDelete)
            THEN [withEdit EXCEPT !.deleteCommand = getDeleteCommand]
            ELSE withEdit
    ELSE vscodeComment

\* commentController.createCommentThread: a new thread object of the host.
createCommentThread(comments) ==
    [status |-> "Live", comments |-> comments, label |-> Undefined,
     acceptInputCommand |-> Undefined, additionalCommands |-> <<>>,
     collapsibleState |-> Undefined]

\* createVSCodeCommentThread, `thread` being the thread it is given: its
\* comments and collapsibleState.  When updateCommentCommands throws, the
\* host's thread object exists already, with the comments as given (the
\* same objects, patched up to the one that threw) and nothing else set.
createVSCodeCommentThread(thread, inDraftMode, supportsGraphQl) ==
    LET throwing == {i \in DOMAIN thread.comments :
                        updateCommentCommandsThrows(thread.comments[i], TRUE, TRUE)}
        withCommands(c) == updateCommentCommands(c, TRUE, TRUE)
        vscodeThread == [createCommentThread(thread.comments) EXCEPT !.comments =
                            [i \in DOMAIN thread.comments |->
                                withCommands(thread.comments[i])]]
        labelled == updateCommentThreadLabel(vscodeThread)
        commands == getAcceptInputCommands(inDraftMode, supportsGraphQl)
        n == Reached(thread.comments, throwing)
    IN IF n < Len(thread.comments)
       THEN [thread |-> [createCommentThread(thread.comments) EXCEPT !.comments =
                            [i \in 1..Len(thread.comments) |->
                                IF i <= n THEN withCommands(thread.comments[i])
                                ELSE thread.comments[i]]],
             fault |-> TRUE]
       ELSE [thread |-> [labelled EXCEPT
                            !.acceptInputCommand = commands.acceptInputCommand,
                            !.additionalCommands = commands.additionalCommands,
                            !.collapsibleState = thread.collapsibleState],
             fault |-> FALSE]

(***************************************************************************)
(* The normalizers.  An object-valued field that is absent is Missing; an  *)
(* optional number is None or Some(n).  A canonical boolean field that     *)
(* some normalizer leaves undefined is None / Some(b) in every normalizer. *)
(***************************************************************************)
Missing == [missing |-> TRUE]

\* JavaScript falsiness of an optional number: undefined, null and 0.
Falsy(v) == v = None \/ v = Some(0)

convertRESTUserToAccount(user, githubRepository) ==
    [login |-> user.login,
     url |-> user.html_url,
     avatarUrl |-> IF githubRepository.isGitHubDotCom THEN user.avatar_url
                   ELSE Undefined]

convertRESTHeadToIGitHubRef(head) ==
    [label |-> head.label,
     ref |-> head.ref,
     sha |-> head.sha,
     repo |-> [cloneUrl |-> head.repo.clone_url]]

\* convertRESTPullRequestToRawPullRequest without the `|| false` of merged.
convertRESTPullRequestToRawPullRequestRawMerged(pullRequest, githubRepository) ==
    [id |-> pullRequest.id,
     graphNodeId |-> pullRequest.node_id,
     number |-> pullRequest.number,
     body |-> pullRequest.body,
     title |-> pullRequest.title,
     url |-> pullRequest.html_url,
     user |-> convertRESTUserToAccount(pullRequest.user, githubRepository),
     state |-> pullRequest.state,
     merged |-> pullRequest.merged,
     assignee |-> IF pullRequest.assignee # Missing
                  THEN convertRESTUserToAccount(pullRequest.assignee, githubRepository)
                  ELSE Missing,
     createdAt |-> pullRequest.created_at,
     updatedAt |-> pullRequest.updated_at,
     head |-> convertRESTHeadToIGitHubRef(pullRequest.head),
     base |-> convertRESTHeadToIGitHubRef(pullRequest.base),
     mergeable |-> pullRequest.mergeable,
     labels |-> pullRequest.labels,
     isDraft |-> pullRequest.draft]

\* convertRESTPullRequestToRawPullRequest ignoring the merged field.
convertRESTPullRequestToRawPullRequestNeverMerged(pullRequest, githubRepository) ==
    [id |-> pullRequest.id,
     graphNodeId |-> pullRequest.node_id,
     number |-> pullRequest.number,
     body |-> pullRequest.body,
     title |-> pullRequest.title,
     url |-> pullRequest.html_url,
     user |-> convertRESTUserToAccount(pullRequest.user, githubRepository),
     state |-> pullRequest.state,
     merged |-> Some(FALSE),
     assignee |-> IF pullRequest.assignee # Missing
                  THEN convertRESTUserToAccount(pullRequest.assignee, githubRepository)
                  ELSE Missing,
     createdAt |-> pullRequest.created_at,
     updatedAt |-> pullRequest.updated_at,
     head |-> convertRESTHeadToIGitHubRef(pullRequest.head),
     base |-> convertRESTHeadToIGitHubRef(pullRequest.base),
     mergeable |-> pullRequest.mergeable,
     labels |-> pullRequest.labels,
     isDraft |-> pullRequest.draft]

convertRESTPullRequestToRawPullRequest(pullRequest, githubRepository) ==
    [id |-> pullRequest.id,
     graphNodeId |-> pullRequest.node_id,
     number |-> pullRequest.number,
     body |-> pullRequest.body,
     title |-> pullRequest.title,
     url |-> pullRequest.html_url,
     user |-> convertRESTUserToAccount(pullRequest.user, githubRepository),
     state |-> pullRequest.state,
     merged |-> Some(Truthy(pullRequest.merged)),
     assignee |-> IF pullRequest.assignee # Missing
                  THEN convertRESTUserToAccount(pullRequest.assignee, githubRepository)
                  ELSE Missing,
     createdAt |-> pullRequest.created_at,
     updatedAt |-> pullRequest.updated_at,
     head |-> convertRESTHeadToIGitHubRef(pullRequest.head),
     base |-> convertRESTHeadToIGitHubRef(pullRequest.base),
     mergeable |-> pullRequest.mergeable,
     labels |-> pullRequest.labels,
     isDraft |-> pullRequest.draft]

\* PullRequestModel (github/pullRequestModel): the state it reports for the
\* canonical record it is built from.
PullRequestModelState(item) ==
    IF item.state = "open" THEN "Open"
    ELSE IF Truthy(item.merged) THEN "Merged"
    ELSE "Closed"

convertRESTReviewEvent(review, githubRepository) ==
    [event |-> "Reviewed",
     comments |-> <<>>,
     submittedAt |-> review.submitted_at,
     body |-> review.body,
     htmlUrl |-> review.html_url,
     user |-> convertRESTUserToAccount(review.user, githubRepository),
     authorAssociation |-> review.user.type,
     state |-> review.state,
     id |-> review.id]

\* parseDiffHunk of common/diffHunk: no hunk for the empty text, one hunk per
\* hunk header `@@ -a,b +c,d @@`, a ParseError for any other text.
DiffHunkHeader == "@@ -1,1 +1,2 @@"
\* A text that is no hunk header, and a hunk followed by such a text.
DiffHunkMalformed == "@@ malformed"
DiffHunkTruncated == "@@ -1,1 +1,2 @@ \\n @@ malformed"
DiffHunkTexts == {"", DiffHunkHeader, DiffHunkMalformed, DiffHunkTruncated}
parseDiffHunkThrows(text) == text \notin {"", DiffHunkHeader}
\* The hunks the reader yields, up to the failure if there is one.
parseDiffHunk(text) ==
    IF text \in {DiffHunkHeader, DiffHunkTruncated}
    THEN <<[oldLineNumber |-> 1, oldLength |-> 1, newLineNumber |-> 1, newLength |-> 2]>>
    ELSE <<>>

\* parseCommentDiffHunk catching the ParseError and returning what it has.
parseCommentDiffHunkSwallows(comment) == FALSE

\* parseCommentDiffHunk drains the reader; a ParseError propagates.
parseCommentDiffHunkThrows(comment) == parseDiffHunkThrows(comment.diffHunk)
parseCommentDiffHunk(comment) == parseDiffHunk(comment.diffHunk)

convertIssuesCreateCommentResponseToComment(comment, githubRepository) ==
    [url |-> comment.url,
     id |-> comment.id,
     diffHunk |-> "",
     diffHunks |-> <<>>,
     path |-> Undefined,
     position |-> None,
     commitId |-> Undefined,
     originalPosition |-> None,
     originalCommitId |-> Undefined,
     user |-> convertRESTUserToAccount(comment.user, githubRepository),
     body |-> comment.body,
     createdAt |-> comment.created_at,
     htmlUrl |-> comment.html_url,
     graphNodeId |-> comment.node_id,
     pullRequestReviewId |-> None,
     inReplyToId |-> None,
     isDraft |-> None,
     canEdit |-> None,
     canDelete |-> None,
     reactions |-> NoReactions]

\* The error of parseCommentDiffHunk(ret) is not caught.
convertPullRequestsGetCommentsResponseItemToCommentThrows(comment) ==
    parseCommentDiffHunkThrows([diffHunk |-> comment.diff_hunk])

convertPullRequestsGetCommentsResponseItemToComment(comment, githubRepository) ==
    LET ret ==
            [url |-> comment.url,
             id |-> comment.id,
             pullRequestReviewId |-> comment.pull_request_review_id,
             diffHunk |-> comment.diff_hunk,
             path |-> comment.path,
             position |-> comment.position,
             commitId |-> comment.commit_id,
             originalPosition |-> comment.original_position,
             originalCommitId |-> comment.original_commit_id,
             user |-> convertRESTUserToAccount(comment.user, githubRepository),
             body |-> comment.body,
             createdAt |-> comment.created_at,
             htmlUrl |-> comment.html_url,
             inReplyToId |-> comment.in_reply_to_id,
             graphNodeId |-> comment.node_id,
             isDraft |-> None,
             canEdit |-> None,
             canDelete |-> None,
             reactions |-> NoReactions]
    IN [f \in DOMAIN ret \cup {"diffHunks"} |->
            IF f = "diffHunks" THEN parseCommentDiffHunk(ret) ELSE ret[f]]

\* convertGraphQLEventType without its MergedEvent case.
convertGraphQLEventTypeNoMerged(text) ==
    CASE text = "Commit" -> "Committed"
      [] text = "LabeledEvent" -> "Labeled"
      [] text = "MilestonedEvent" -> "Milestoned"
      [] text = "AssignedEvent" -> "Assigned"
      [] text = "IssueComment" -> "Commented"
      [] text = "PullRequestReview" -> "Reviewed"
      [] OTHER -> "Other"

convertGraphQLEventType(text) ==
    CASE text = "Commit" -> "Committed"
      [] text = "LabeledEvent" -> "Labeled"
      [] text = "MilestonedEvent" -> "Milestoned"
      [] text = "AssignedEvent" -> "Assigned"
      [] text = "IssueComment" -> "Commented"
      [] text = "PullRequestReview" -> "Reviewed"
      [] text = "MergedEvent" -> "Merged"
      [] OTHER -> "Other"

\* The eight reaction kinds; the labels are the emoji, written by name.
getReactionGroup ==
    <<[title |-> "CONFUSED", label |-> ":confused:", icon |-> "reactions/CONFUSED"],
      [title |-> "EYES", label |-> ":eyes:", icon |-> "reactions/EYES"],
      [title |-> "HEART", label |-> ":heart:", icon |-> "reactions/HEART"],
      [title |-> "HOORAY", label |-> ":tada:", icon |-> "reactions/HOORAY"],
      [title |-> "LAUGH", label |-> ":smile:", icon |-> "reactions/LAUGH"],
      [title |-> "ROCKET", label |-> ":rocket:", icon |-> "reactions/ROCKET"],
      [title |-> "THUMBS_DOWN", label |-> ":-1:", icon |-> "reactions/THUMBS_DOWN"],
      [title |-> "THUMBS_UP", label |-> ":+1:", icon |-> "reactions/THUMBS_UP"]>>

\* reactionConentEmojiMapping[content]; Missing when content is no title.
ReactionMapping(content) ==
    LET hits == {i \in DOMAIN getReactionGroup : getReactionGroup[i].title = content}
    IN IF hits = {} THEN Missing ELSE getReactionGroup[Max(hits)]

\* Reading .label of an absent mapping entry throws, for the groups kept by
\* the filter.
parseGraphQLReactionThrows(reactionGroups) ==
    \E i \in DOMAIN reactionGroups :
        /\ reactionGroups[i].users.totalCount > 0
        /\ ReactionMapping(reactionGroups[i].content) = Missing

\* parseGraphQLReaction without its filter: a group nobody reacted to is
\* kept, with no label when its content is not in the table.
parseGraphQLReactionKeepEmpty(reactionGroups) ==
    [i \in DOMAIN reactionGroups |->
        [label |-> IF ReactionMapping(reactionGroups[i].content) = Missing
                   THEN Undefined
                   ELSE ReactionMapping(reactionGroups[i].content).label,
         count |-> reactionGroups[i].users.totalCount,
         icon |-> IF ReactionMapping(reactionGroups[i].content) = Missing
                  THEN Undefined
                  ELSE ReactionMapping(reactionGroups[i].content).icon,
         viewerHasReacted |-> reactionGroups[i].viewerHasReacted]]

parseGraphQLReaction(reactionGroups) ==
    LET someone(group) == group.users.totalCount > 0
        kept == SelectSeq(reactionGroups, someone)
    IN [i \in DOMAIN kept |->
            [label |-> ReactionMapping(kept[i].content).label,
             count |-> kept[i].users.totalCount,
             icon |-> ReactionMapping(kept[i].content).icon,
             viewerHasReacted |-> kept[i].viewerHasReacted]]

parseGraphQLCommentThrows(comment) ==
    \/ parseGraphQLReactionThrows(comment.reactionGroups)
    \/ parseCommentDiffHunkThrows(comment)

\* parseGraphQLComment taking canEdit from the viewer's update capability.
parseGraphQLCommentCanUpdate(comment) ==
    LET c ==
            [id |-> comment.databaseId,
             url |-> comment.url,
             body |-> comment.body,
             path |-> comment.path,
             canEdit |-> Some(comment.viewerCanUpdate),
             canDelete |-> Some(comment.viewerCanDelete),
             pullRequestReviewId |->
                 IF comment.pullRequestReview # Missing
                 THEN Some(comment.pullRequestReview.databaseId) ELSE None,
             diffHunk |-> comment.diffHunk,
             position |-> comment.position,
             commitId |-> comment.commit.oid,
             originalPosition |-> comment.originalPosition,
             originalCommitId |->
                 IF comment.originalCommit # Missing
                 THEN comment.originalCommit.oid ELSE Undefined,
             user |-> comment.author,
             createdAt |-> comment.createdAt,
             htmlUrl |-> comment.url,
             graphNodeId |-> comment.id,
             isDraft |-> Some(comment.state = "PENDING"),
             inReplyToId |->
                 IF comment.replyTo # Missing
                 THEN Some(comment.replyTo.databaseId) ELSE None,
             reactions |-> Reactions(parseGraphQLReaction(comment.reactionGroups))]
    IN [f \in DOMAIN c \cup {"diffHunks"} |->
            IF f = "diffHunks" THEN parseCommentDiffHunk(c) ELSE c[f]]

parseGraphQLComment(comment) ==
    LET c ==
            [id |-> comment.databaseId,
             url |-> comment.url,
             body |-> comment.body,
             path |-> comment.path,
             canEdit |-> Some(comment.viewerCanDelete),
             canDelete |-> Some(comment.viewerCanDelete),
             pullRequestReviewId |->
                 IF comment.pullRequestReview # Missing
                 THEN Some(comment.pullRequestReview.databaseId) ELSE None,
             diffHunk |-> comment.diffHunk,
             position |-> comment.position,
             commitId |-> comment.commit.oid,
             originalPosition |-> comment.originalPosition,
             originalCommitId |->
                 IF comment.originalCommit # Missing
                 THEN comment.originalCommit.oid ELSE Undefined,
             user |-> comment.author,
             createdAt |-> comment.createdAt,
             htmlUrl |-> comment.url,
             graphNodeId |-> comment.id,
             isDraft |-> Some(comment.state = "PENDING"),
             inReplyToId |->
                 IF comment.replyTo # Missing
                 THEN Some(comment.replyTo.databaseId) ELSE None,
             reactions |-> Reactions(parseGraphQLReaction(comment.reactionGroups))]
    IN [f \in DOMAIN c \cup {"diffHunks"} |->
            IF f = "diffHunks" THEN parseCommentDiffHunk(c) ELSE c[f]]

parseRef(ref) ==
    IF ref # Missing
    THEN [label |-> ref.repository.owner.login \o ":" \o ref.name,
          ref |-> ref.name,
          sha |-> ref.target.oid,
          repo |-> [cloneUrl |-> ref.repository.url]]
    ELSE Missing

parseAuthor(author, githubRepository) ==
    [login |-> author.login,
     url |-> author.url,
     avatarUrl |-> IF githubRepository.isGitHubDotCom THEN author.avatarUrl
                   ELSE Undefined]

\* parseGraphQLPullRequest taking every value but CONFLICTING for mergeable.
parseGraphQLPullRequestNotConflicting(pullRequest, githubRepository) ==
    LET graphQLPullRequest == pullRequest.repository.pullRequest
    IN [id |-> graphQLPullRequest.databaseId,
        graphNodeId |-> graphQLPullRequest.id,
        url |-> graphQLPullRequest.url,
        number |-> graphQLPullRequest.number,
        state |-> graphQLPullRequest.state,
        body |-> graphQLPullRequest.body,
        bodyHTML |-> graphQLPullRequest.bodyHTML,
        title |-> graphQLPullRequest.title,
        createdAt |-> graphQLPullRequest.createdAt,
        updatedAt |-> graphQLPullRequest.updatedAt,
        head |-> parseRef(graphQLPullRequest.headRef),
        base |-> parseRef(graphQLPullRequest.baseRef),
        user |-> parseAuthor(graphQLPullRequest.author, githubRepository),
        merged |-> Some(graphQLPullRequest.merged),
        mergeable |-> Some(graphQLPullRequest.mergeable # "CONFLICTING"),
        labels |-> graphQLPullRequest.labels.nodes,
        isDraft |-> graphQLPullRequest.isDraft]

parseGraphQLPullRequest(pullRequest, githubRepository) ==
    LET graphQLPullRequest == pullRequest.repository.pullRequest
    IN [id |-> graphQLPullRequest.databaseId,
        graphNodeId |-> graphQLPullRequest.id,
        url |-> graphQLPullRequest.url,
        number |-> graphQLPullRequest.number,
        state |-> graphQLPullRequest.state,
        body |-> graphQLPullRequest.body,
        bodyHTML |-> graphQLPullRequest.bodyHTML,
        title |-> graphQLPullRequest.title,
        createdAt |-> graphQLPullRequest.createdAt,
        updatedAt |-> graphQLPullRequest.updatedAt,
        head |-> parseRef(graphQLPullRequest.headRef),
        base |-> parseRef(graphQLPullRequest.baseRef),
        user |-> parseAuthor(graphQLPullRequest.author, githubRepository),
        merged |-> Some(graphQLPullRequest.merged),
        mergeable |-> Some(graphQLPullRequest.mergeable = "MERGEABLE"),
        labels |-> graphQLPullRequest.labels.nodes,
        isDraft |-> graphQLPullRequest.isDraft]

\* parseAuthor reads author.login: a TypeError when the author is null.
parseAuthorThrows(author) == author = Missing

parseGraphQLReviewEventThrows(review) ==
    \/ \E i \in DOMAIN review.comments.nodes :
            parseGraphQLCommentThrows(review.comments.nodes[i])
    \/ parseAuthorThrows(review.author)

\* parseGraphQLReviewEvent without its filter on inReplyToId.
parseGraphQLReviewEventKeepReplies(review, githubRepository) ==
    [event |-> "Reviewed",
     comments |-> [i \in DOMAIN review.comments.nodes |->
                      parseGraphQLComment(review.comments.nodes[i])],
     submittedAt |-> review.submittedAt,
     body |-> review.body,
     bodyHTML |-> review.bodyHTML,
     htmlUrl |-> review.url,
     user |-> parseAuthor(review.author, githubRepository),
     authorAssociation |-> review.authorAssociation,
     state |-> review.state,
     id |-> review.databaseId]

parseGraphQLReviewEvent(review, githubRepository) ==
    LET parsed == [i \in DOMAIN review.comments.nodes |->
                       parseGraphQLComment(review.comments.nodes[i])]
        topLevel(c) == Falsy(c.inReplyToId)
    IN [event |-> "Reviewed",
        comments |-> SelectSeq(parsed, topLevel),
        submittedAt |-> review.submittedAt,
        body |-> review.body,
        bodyHTML |-> review.bodyHTML,
        htmlUrl |-> review.url,
        user |-> parseAuthor(review.author, githubRepository),
        authorAssociation |-> review.authorAssociation,
        state |-> review.state,
        id |-> review.databaseId]

\* The event types whose case of the switch pushes a normalized event; the
\* default case pushes nothing.
PushedEventTypes == {"Commented", "Reviewed", "Committed", "Merged", "Assigned"}

\* The cases of the switch that hand the event's author to parseAuthor.
parseGraphQLTimelineEventsThrows(events) ==
    \E i \in DOMAIN events :
        LET event == events[i]
            type == convertGraphQLEventType(event.__typename)
        IN \/ type \in {"Commented", "Reviewed"} /\ parseAuthorThrows(event.author)
           \/ type = "Merged" /\ parseAuthorThrows(event.actor)

\* parseGraphQLTimelineEvents whose default case pushes a bare Other event.
parseGraphQLTimelineEventsKeepOther(events, githubRepository) ==
    [i \in DOMAIN events |->
        [event |-> convertGraphQLEventType(events[i].__typename)]]

parseGraphQLTimelineEvents(events, githubRepository) ==
    LET type(event) == convertGraphQLEventType(event.__typename)
        pushed(event) == type(event) \in PushedEventTypes
        normalized(event) ==
            CASE type(event) = "Commented" ->
                    [htmlUrl |-> event.url,
                     body |-> event.body,
                     bodyHTML |-> event.bodyHTML,
                     user |-> parseAuthor(event.author, githubRepository),
                     event |-> type(event),
                     canEdit |-> event.viewerCanUpdate,
                     canDelete |-> event.viewerCanDelete,
                     id |-> event.databaseId,
                     createdAt |-> event.createdAt]
              [] type(event) = "Reviewed" ->
                    [event |-> type(event),
                     comments |-> <<>>,
                     submittedAt |-> event.submittedAt,
                     body |-> event.body,
                     bodyHTML |-> event.bodyHTML,
                     htmlUrl |-> event.url,
                     user |-> parseAuthor(event.author, githubRepository),
                     authorAssociation |-> event.authorAssociation,
                     state |-> event.state,
                     id |-> event.databaseId]
              [] type(event) = "Committed" ->
                    [id |-> event.databaseId,
                     event |-> type(event),
                     sha |-> event.oid,
                     author |-> IF event.author.user # Missing
                                THEN parseAuthor(event.author.user, githubRepository)
                                ELSE [login |-> event.committer.name,
                                      url |-> Undefined,
                                      avatarUrl |-> Undefined],
                     htmlUrl |-> event.url,
                     message |-> event.message]
              [] type(event) = "Merged" ->
                    [id |-> event.databaseId,
                     event |-> type(event),
                     user |-> parseAuthor(event.actor, githubRepository),
                     createdAt |-> event.createdAt,
                     mergeRef |-> event.mergeRef.name,
                     sha |-> event.commit.oid,
                     commitUrl |-> event.commit.commitUrl,
                     url |-> event.url,
                     graphNodeId |-> event.id]
              [] type(event) = "Assigned" ->
                    [id |-> event.databaseId,
                     event |-> type(event),
                     user |-> event.user,
                     actor |-> event.actor]
        kept == SelectSeq(events, pushed)
    IN [i \in DOMAIN kept |-> normalized(kept[i])]

\* Assignment of fields to an object: `add` overrides and extends `object`.
Assign(object, add) ==
    [f \in DOMAIN object \cup DOMAIN add |->
        IF f \in DOMAIN add THEN add[f] ELSE object[f]]

\* Reading event.user.type of a Reviewed entry without user throws.
convertRESTTimelineEventsThrowing(events) ==
    {i \in DOMAIN events : events[i].event = "Reviewed" /\ events[i].user = Missing}

\* What the body of the forEach callback does to one entry.
PatchedRESTTimelineEvent(event) ==
    CASE event.event = "Reviewed" ->
            Assign(event, [submittedAt |-> event.submitted_at,
                           htmlUrl |-> event.html_url,
                           authorAssociation |-> event.user.type])
      [] event.event = "Committed" -> Assign(event, [htmlUrl |-> event.html_url])
      [] OTHER -> event

\* The entries of the array when the callback threw: those before the
\* throwing one are patched, the throwing one has its first two fields.
convertRESTTimelineEventsFailed(events) ==
    LET done == Reached(events, convertRESTTimelineEventsThrowing(events))
    IN [i \in DOMAIN events |->
            IF i <= done THEN PatchedRESTTimelineEvent(events[i])
            ELSE IF i = done + 1
                 THEN Assign(events[i], [submittedAt |-> events[i].submitted_at,
                                         htmlUrl |-> events[i].html_url])
                 ELSE events[i]]

\* convertRESTTimelineEvents moving the REST fields to their new names.
convertRESTTimelineEventsRename(events) ==
    [i \in DOMAIN events |->
        LET patched == PatchedRESTTimelineEvent(events[i])
        IN [f \in DOMAIN patched \ {"submitted_at", "html_url"} |-> patched[f]]]

convertRESTTimelineEvents(events) ==
    [i \in DOMAIN events |-> PatchedRESTTimelineEvent(events[i])]

(***************************************************************************)
(* The synchronizer as a state machine: one thread handle per thread id,   *)
(* driven by the callbacks that call the functions above.                  *)
(***************************************************************************)
ThreadIds == {"t1", "t2"}

\* No editor-side thread object yet.
FreshThread ==
    [status |-> "Fresh", comments |-> <<>>, label |-> Undefined,
     acceptInputCommand |-> Undefined, additionalCommands |-> <<>>,
     collapsibleState |-> Undefined]

\* lastOp: the call, the thread it was made on, whether it threw, and whether
\* it changed the thread object.
\* `index` is the comment a call on one comment was made on, 0 otherwise.
NoOp == [op |-> "none", thread |-> "none", index |-> 0, fault |-> FALSE,
         changed |-> FALSE]
OpAt(name, t, i, fault) ==
    [op |-> name, thread |-> t, index |-> i, fault |-> fault,
     changed |-> threads'[t] # threads[t]]
Op(name, t, fault) == OpAt(name, t, 0, fault)

SeqsUpTo(S, n) == UNION {[1..k -> S] : k \in 0..n}

InitThreads ==
    /\ threads = [t \in ThreadIds |-> FreshThread]
    /\ lastOp = NoOp

IdleFetches ==
    /\ fetches = {}
    /\ arrivals = <<>>

IdleNormalizer ==
    /\ input = [kind |-> "none"]
    /\ output = [kind |-> "none"]

\* new EventEmitter(): no listener, nothing fired; promiseFromEvent not called.
NewEmitter ==
    /\ emitter = [listeners |-> 0, fired |-> <<>>]
    /\ promise = [status |-> "none"]

(***************************************************************************)
(* PullRequestsTreeDataProvider: the provider's fields, and initialize and *)
(* getChildren as functions of them.                                       *)
(***************************************************************************)
\* The `queries` setting: not set, empty, or two queries in either order.
QueryInfos ==
    <<[label |-> "Waiting For My Review", query |-> "is:open review-requested:${user}"],
      [label |-> "Created By Me", query |-> "is:open author:${user}"]>>

QuerySettings ==
    {None, Some(<<>>), Some(QueryInfos), Some(<<QueryInfos[2], QueryInfos[1]>>)}

Managers == {"m1", "m2"}

\* The constructor: the providers and commands it registers and the view it
\* creates are pushed to _disposables; no manager, no queries.
\* disposedUpTo: how many of _disposables, from the first, dispose() has
\* disposed.
NewProvider ==
    [_initialized |-> FALSE,
     _prManager |-> Undefined,
     _queries |-> None,
     _disposables |-> <<"pr", "decorationProvider", "pr.refreshList", "pr.loadMore",
                        "view", "pr.configurePRViewlet">>,
     _childrenDisposables |-> <<>>,
     disposedUpTo |-> 0]

\* get<IQueryInfo[]>(QUERIES_SETTING) || []
updateQueries(p, setting) ==
    [p EXCEPT !._queries = IF setting = None THEN Some(<<>>) ELSE setting]

\* initialize without the test of _initialized.
initializeAgain(p, prManager, setting) ==
    [provider |-> [updateQueries([p EXCEPT !._initialized = TRUE,
                                           !._prManager = prManager], setting)
                      EXCEPT !._disposables = Append(@, "onDidChangeConfiguration")],
     fault |-> FALSE,
     fired |-> TRUE]

\* initialize(prManager), with initializeCategories and refresh: the provider
\* after the call, whether it threw, whether onDidChangeTreeData fired.
initialize(p, prManager, setting) ==
    IF p._initialized
    THEN [provider |-> p, fault |-> TRUE, fired |-> FALSE]
    ELSE [provider |-> [updateQueries([p EXCEPT !._initialized = TRUE,
                                                !._prManager = prManager], setting)
                           EXCEPT !._disposables = Append(@, "onDidChangeConfiguration")],
          fault |-> FALSE,
          fired |-> TRUE]

\* new CategoryTreeNode(view, prManager, telemetry, type, label, query)
CategoryTreeNode(type, label, query) ==
    [type |-> type, label |-> label, query |-> query, disposed |-> FALSE]

\* new PRCategoryActionNode(view, type)
PRCategoryActionNode(type) == [node |-> "action", type |-> type]

\* What the editor has when getChildren runs: whether a folder is open, the
\* manager's GitHub remotes, whether the remotes setting is set, the
\* repository's git remotes.
Environments ==
    [workspaceFolders : BOOLEAN, githubRemotes : {0, 1}, remotesSetting : BOOLEAN,
     gitRemotes : {0, 1}]

\* The category nodes of a root-level call, for the queries of the provider.
Categories(queries) ==
    <<CategoryTreeNode("LocalPullRequest", Undefined, Undefined)>>
    \o [i \in DOMAIN queries |->
            CategoryTreeNode("Query", queries[i].label, queries[i].query)]
    \o <<CategoryTreeNode("All", Undefined, Undefined)>>

\* getChildren whose root-level call leaves the previous nodes alone.
getChildrenKeepPrevious(p, nodes, element, env) ==
    IF p._prManager = Undefined
    THEN [provider |-> p, nodes |-> nodes,
          result |-> IF ~env.workspaceFolders
                     THEN <<PRCategoryActionNode("NoOpenFolder")>>
                     ELSE <<PRCategoryActionNode("NoGitRepositories")>>]
    ELSE IF env.githubRemotes = 0
    THEN [provider |-> p, nodes |-> nodes,
          result |-> IF env.remotesSetting
                     THEN <<PRCategoryActionNode("NoMatchingRemotes"),
                            PRCategoryActionNode("ConfigureRemotes")>>
                     ELSE <<PRCategoryActionNode("NoRemotes")>>]
    ELSE IF element = 0
    THEN LET made == Categories(p._queries[1])
             ids == [i \in DOMAIN made |-> Len(nodes) + i]
         IN [provider |-> [p EXCEPT !._childrenDisposables = ids],
             nodes |-> nodes \o made,
             result |-> [i \in DOMAIN ids |-> [node |-> "category", id |-> ids[i]]]]
    ELSE [provider |-> p, nodes |-> nodes,
          result |-> IF env.gitRemotes = 0
                     THEN <<PRCategoryActionNode("Empty")>>
                     ELSE <<[node |-> "children", of |-> element]>>]

\* getChildren(element), element 0 standing for no element: the provider and
\* the nodes after the call, and the nodes it resolves to. Nodes are named
\* by their position in the list of all category nodes made so far.
getChildren(p, nodes, element, env) ==
    IF p._prManager = Undefined
    THEN [provider |-> p, nodes |-> nodes,
          result |-> IF ~env.workspaceFolders
                     THEN <<PRCategoryActionNode("NoOpenFolder")>>
                     ELSE <<PRCategoryActionNode("NoGitRepositories")>>]
    ELSE IF env.githubRemotes = 0
    THEN [provider |-> p, nodes |-> nodes,
          result |-> IF env.remotesSetting
                     THEN <<PRCategoryActionNode("NoMatchingRemotes"),
                            PRCategoryActionNode("ConfigureRemotes")>>
                     ELSE <<PRCategoryActionNode("NoRemotes")>>]
    ELSE IF element = 0
    THEN LET previous == {p._childrenDisposables[i] : i \in DOMAIN p._childrenDisposables}
             disposed == [n \in DOMAIN nodes |->
                            IF n \in previous THEN [nodes[n] EXCEPT !.disposed = TRUE]
                            ELSE nodes[n]]
             made == Categories(p._queries[1])
             ids == [i \in DOMAIN made |-> Len(nodes) + i]
         IN [provider |-> [p EXCEPT !._childrenDisposables = ids],
             nodes |-> disposed \o made,
             result |-> [i \in DOMAIN ids |-> [node |-> "category", id |-> ids[i]]]]
    ELSE [provider |-> p, nodes |-> nodes,
          result |-> IF env.gitRemotes = 0
                     THEN <<PRCategoryActionNode("Empty")>>
                     ELSE <<[node |-> "children", of |-> element]>>]

\* No call made on the provider yet.
NoCall ==
    [op |-> "none", manager |-> Undefined, element |-> 0, githubRemotes |-> 0,
     fault |-> FALSE, fired |-> FALSE, result |-> <<>>]

\* new PullRequestsTreeDataProvider(telemetry) in a workspace whose queries
\* setting is not set; the view has asked for nothing.
NewTree ==
    /\ provider = NewProvider
    /\ workbench = [queries |-> None, nodes |-> <<>>, returned |-> <<>>,
                    roots |-> 0, refreshPending |-> FALSE, call |-> NoCall]

Bound(t) == threads[t].status # "Fresh"

\* Create(canonicalThread): the comments converted by convertToVSCodeComment,
\* handed to createVSCodeCommentThread.
CreateFrom(t, raws, inDraftMode, supportsGraphQl) ==
    LET convert(c) == convertToVSCodeComment(c, Undefined)
        given == [comments |-> [i \in DOMAIN raws |-> convert(raws[i])],
                  collapsibleState |-> "Expanded"]
        r == createVSCodeCommentThread(given, inDraftMode, supportsGraphQl)
    IN /\ threads[t].status = "Fresh"
       /\ threads' = [threads EXCEPT ![t] = r.thread]
       /\ lastOp' = Op("Create", t, r.fault)

Create(t) ==
    /\ \E raws \in SeqsUpTo(ThreadComments, MaxComments),
          inDraftMode \in BOOLEAN, supportsGraphQl \in BOOLEAN :
            CreateFrom(t, raws, inDraftMode, supportsGraphQl)
    /\ UNCHANGED <<fetches, arrivals, input, output, emitter, promise,
                 provider, workbench>>

UpdateLabel(t) ==
    /\ Bound(t)
    /\ threads' = [threads EXCEPT ![t] = updateCommentThreadLabel(threads[t])]
    /\ lastOp' = Op("UpdateLabel", t, FALSE)
    /\ UNCHANGED <<fetches, arrivals, input, output, emitter, promise,
                 provider, workbench>>

\* A reply or a new comment: the caller appends the converted comment, gives
\* it its commands and recomputes the label.
Reply(t) ==
    /\ Bound(t)
    /\ Len(threads[t].comments) < MaxComments
    /\ \E raw \in ThreadComments :
        LET c == updateCommentCommands(convertToVSCodeComment(raw, Undefined), TRUE, TRUE)
            appended == [threads[t] EXCEPT !.comments = Append(@, c)]
        IN threads' = [threads EXCEPT ![t] = updateCommentThreadLabel(appended)]
    /\ lastOp' = Op("Reply", t, FALSE)
    /\ UNCHANGED <<fetches, arrivals, input, output, emitter, promise,
                 provider, workbench>>

RemoveAt(s, i) == SubSeq(s, 1, i - 1) \o SubSeq(s, i + 1, Len(s))

\* A comment is deleted: the caller removes it and recomputes the label.
DeleteComment(t) ==
    /\ Bound(t)
    /\ \E i \in 1..Len(threads[t].comments) :
        LET removed == [threads[t] EXCEPT !.comments = RemoveAt(@, i)]
        IN threads' = [threads EXCEPT ![t] = updateCommentThreadLabel(removed)]
    /\ lastOp' = Op("DeleteComment", t, FALSE)
    /\ UNCHANGED <<fetches, arrivals, input, output, emitter, promise,
                 provider, workbench>>

\* ExitDraftMode clearing the draft state of every thread, as it would if the
\* threads shared their comment objects.
ExitDraftModeEverywhere(t) ==
    /\ Bound(t)
    /\ threads' = [u \in ThreadIds |-> updateCommentReviewState(threads[u], FALSE).thread]
    /\ lastOp' = Op("ExitDraftMode", t, updateCommentReviewState(threads[t], FALSE).fault)
    /\ UNCHANGED <<fetches, arrivals, input, output, emitter, promise,
                 provider, workbench>>

\* updateCommentReviewState(thread, false): the review was submitted or deleted.
ExitDraftMode(t) ==
    /\ Bound(t)
    /\ LET r == updateCommentReviewState(threads[t], FALSE)
       IN /\ threads' = [threads EXCEPT ![t] = r.thread]
          /\ lastOp' = Op("ExitDraftMode", t, r.fault)
    /\ UNCHANGED <<fetches, arrivals, input, output, emitter, promise,
                 provider, workbench>>

\* updateCommentReviewState(thread, true): a review was started.
EnterDraftMode(t) ==
    /\ Bound(t)
    /\ LET r == updateCommentReviewState(threads[t], TRUE)
       IN /\ threads' = [threads EXCEPT ![t] = r.thread]
          /\ lastOp' = Op("EnterDraftMode", t, r.fault)
    /\ UNCHANGED <<fetches, arrivals, input, output, emitter, promise,
                 provider, workbench>>

\* thread.dispose(): the host releases the handle; the object's fields stay.
Dispose(t) ==
    /\ threads[t].status = "Live"
    /\ threads' = [threads EXCEPT ![t].status = "Disposed"]
    /\ lastOp' = Op("Dispose", t, FALSE)
    /\ UNCHANGED <<fetches, arrivals, input, output, emitter, promise,
                 provider, workbench>>

Init == InitThreads /\ IdleFetches /\ IdleNormalizer /\ NewEmitter /\ NewTree

\* The thread the single-thread specifications drive.
OneThread == {"t1"}

Next ==
    \E t \in OneThread :
        \/ Create(t)
        \/ UpdateLabel(t)
        \/ Reply(t)
        \/ DeleteComment(t)
        \/ ExitDraftMode(t)
        \/ EnterDraftMode(t)
        \/ Dispose(t)

Spec == Init /\ [][Next]_vars

(***************************************************************************)
(* Edit and delete commands: threads of comments that differ in their      *)
(* canEdit / canDelete flags, which the owner of the Comment objects may   *)
(* change (the flags are plain mutable fields of _rawComment).             *)
(***************************************************************************)
\* REST comments carry neither flag; GraphQL and issue comments carry both.
Capabilities ==
    {<<None, None>>} \cup ({Some(TRUE), Some(FALSE)} \X {Some(TRUE), Some(FALSE)})

CapComments ==
    { RawComment(1, "A", Some(FALSE), caps[1], caps[2], NoReactions) :
        caps \in Capabilities }

CreateWithCaps(t) ==
    /\ \E raws \in SeqsUpTo(CapComments, MaxCapComments),
          inDraftMode \in BOOLEAN, supportsGraphQl \in BOOLEAN :
            CreateFrom(t, raws, inDraftMode, supportsGraphQl)
    /\ UNCHANGED <<fetches, arrivals, input, output, emitter, promise,
                 provider, workbench>>

\* createVSCodeCommentThread given a thread made of the same comment objects.
CreateAgain(t) ==
    /\ Bound(t)
    /\ \E inDraftMode \in BOOLEAN, supportsGraphQl \in BOOLEAN :
        LET r == createVSCodeCommentThread(threads[t], inDraftMode, supportsGraphQl)
        IN /\ threads' = [threads EXCEPT ![t] = r.thread]
           /\ lastOp' = Op("Create", t, r.fault)
    /\ UNCHANGED <<fetches, arrivals, input, output, emitter, promise,
                 provider, workbench>>

UpdateCommands(t) ==
    /\ Bound(t)
    /\ \E i \in DOMAIN threads[t].comments,
          commentControl \in BOOLEAN, pullRequestModel \in BOOLEAN :
        /\ threads' = [threads EXCEPT ![t].comments[i] =
                          updateCommentCommands(@, commentControl, pullRequestModel)]
        /\ lastOp' = OpAt("UpdateCommands", t, i,
                          updateCommentCommandsThrows(threads[t].comments[i],
                                                      commentControl, pullRequestModel))
    /\ UNCHANGED <<fetches, arrivals, input, output, emitter, promise,
                 provider, workbench>>

\* The comment's capability flags change under the editor-side comment.
SetCapabilities(t) ==
    /\ Bound(t)
    /\ \E i \in DOMAIN threads[t].comments, caps \in Capabilities :
        /\ threads' = [threads EXCEPT ![t].comments[i]._rawComment.canEdit = caps[1],
                                      ![t].comments[i]._rawComment.canDelete = caps[2]]
        /\ lastOp' = OpAt("SetCapabilities", t, i, FALSE)
    /\ UNCHANGED <<fetches, arrivals, input, output, emitter, promise,
                 provider, workbench>>

NextCommands ==
    \E t \in OneThread :
        \/ CreateWithCaps(t)
        \/ CreateAgain(t)
        \/ UpdateCommands(t)
        \/ SetCapabilities(t)

SpecCommands == Init /\ [][NextCommands]_vars

(***************************************************************************)
(* Updates that arrive late: reaction fetches are issued in order (their   *)
(* generation) and complete in any order, each completion calling          *)
(* updateCommentReactions; the thread may be disposed in between.          *)
(***************************************************************************)
FetchComments ==
    { RawComment(1, "A", Some(TRUE), Some(TRUE), Some(TRUE), NoReactions),
      RawComment(2, "B", Some(FALSE), Some(FALSE), Some(FALSE), NoReactions) }

\* What the fetch of generation g returns: the reactions as of its issue.
FetchedReactions(g) ==
    [i \in 1..(1 + (g % 2)) |->
        [label |-> "+1", count |-> g, icon |-> "THUMBS_UP", viewerHasReacted |-> i = 2]]

CreateForFetch(t) ==
    /\ \E raws \in SeqsUpTo(FetchComments, MaxFetchComments),
          inDraftMode \in BOOLEAN, supportsGraphQl \in BOOLEAN :
            CreateFrom(t, raws, inDraftMode, supportsGraphQl)
    /\ UNCHANGED <<fetches, arrivals, input, output, emitter, promise,
                 provider, workbench>>

IssueFetch(t) ==
    /\ threads[t].status = "Live"
    /\ Cardinality(fetches) + Len(arrivals) < MaxGen
    /\ \E i \in DOMAIN threads[t].comments :
        fetches' = fetches \cup
            {[gen |-> Cardinality(fetches) + Len(arrivals) + 1, thread |-> t, index |-> i]}
    /\ UNCHANGED <<threads, lastOp, arrivals, input, output, emitter, promise,
                 provider, workbench>>

CompleteFetch(t) ==
    /\ \E f \in fetches :
        /\ f.thread = t
        /\ threads' = [threads EXCEPT ![t].comments[f.index] =
                          updateCommentReactions(@, FetchedReactions(f.gen))]
        /\ fetches' = fetches \ {f}
        /\ arrivals' = Append(arrivals, f)
        /\ lastOp' = OpAt("UpdateReactions", t, f.index, FALSE)
    /\ UNCHANGED <<input, output, emitter, promise,
                 provider, workbench>>

\* A fetched reply is appended, given its commands, and the label recomputed.
ReplyArrives(t) ==
    /\ threads[t].status = "Live"
    /\ Len(threads[t].comments) < MaxFetchComments
    /\ \E raw \in FetchComments :
        LET c == updateCommentCommands(convertToVSCodeComment(raw, Undefined), TRUE, TRUE)
            appended == [threads[t] EXCEPT !.comments = Append(@, c)]
        IN threads' = [threads EXCEPT ![t] = updateCommentThreadLabel(appended)]
    /\ lastOp' = OpAt("Reply", t, Len(threads[t].comments) + 1, FALSE)
    /\ UNCHANGED <<fetches, arrivals, input, output, emitter, promise,
                 provider, workbench>>

NextFetch ==
    \E t \in OneThread :
        \/ CreateForFetch(t)
        \/ IssueFetch(t)
        \/ CompleteFetch(t)
        \/ ReplyArrives(t)
        \/ UpdateLabel(t)
        \/ ExitDraftMode(t)
        \/ Dispose(t)

SpecFetch == Init /\ [][NextFetch]_vars

(***************************************************************************)
(* The same machine when the thread's comment list, typed vscode.Comment[],*)
(* may also hold a comment that was not built by convertToVSCodeComment    *)
(* and so has no _rawComment: the functions cast without a test.           *)
(***************************************************************************)
PlainComment(userName) ==
    [_rawComment |-> NoRaw,
     commentId |-> "0",
     body |-> "body",
     selectCommand |-> Undefined,
     userName |-> userName,
     userIconPath |-> Undefined,
     label |-> Undefined,
     commentReactions |-> <<>>,
     editCommand |-> Undefined,
     deleteCommand |-> Undefined]

AddPlainComment(t) ==
    /\ Bound(t)
    /\ Len(threads[t].comments) < MaxComments
    /\ \E u \in Users :
        threads' = [threads EXCEPT ![t].comments = Append(@, PlainComment(u))]
    /\ lastOp' = Op("AddPlainComment", t, FALSE)
    /\ UNCHANGED <<fetches, arrivals, input, output, emitter, promise,
                 provider, workbench>>

NextForeign ==
    \E t \in OneThread :
        \/ Create(t)
        \/ UpdateLabel(t)
        \/ Reply(t)
        \/ AddPlainComment(t)
        \/ DeleteComment(t)
        \/ ExitDraftMode(t)
        \/ EnterDraftMode(t)
        \/ Dispose(t)

SpecForeign == Init /\ [][NextForeign]_vars

(***************************************************************************)
(* The normalizers as a state machine: a payload of either source shape    *)
(* arrives together with the repository context it came from, and the      *)
(* normalizer for its shape is applied to it once.                         *)
(***************************************************************************)
Repositories == {[isGitHubDotCom |-> b] : b \in BOOLEAN}

RESTUser(login) ==
    [login |-> login, html_url |-> "https://host/" \o login,
     avatar_url |-> "https://avatars/" \o login, type |-> "User"]

GraphQLAuthor(login) == Account(login, "https://avatars/" \o login)

RESTHead(ref) ==
    [label |-> "owner:" \o ref, ref |-> ref, sha |-> "sha-" \o ref,
     repo |-> [clone_url |-> "https://host/owner/repo.git"]]

GraphQLRef(name) ==
    [name |-> name, target |-> [oid |-> "sha-" \o name],
     repository |-> [owner |-> [login |-> "owner"],
                     url |-> "https://host/owner/repo"]]

RESTPullRequests ==
    { [number |-> 1, body |-> "body", title |-> "title",
       html_url |-> "https://host/pull/1", user |-> RESTUser(u), state |-> st,
       assignee |-> a, created_at |-> "t0", updated_at |-> "t1",
       head |-> RESTHead("feature"), base |-> RESTHead("master"),
       labels |-> <<>>, node_id |-> "PR_1", id |-> 11, draft |-> Some(FALSE),
       merged |-> m, mergeable |-> m] :
        u \in Users,
        a \in {Missing} \cup {RESTUser(v) : v \in Users},
        m \in {None, Some(TRUE), Some(FALSE)},
        st \in {"open", "closed"} }

GraphQLPullRequests ==
    { [repository |-> [pullRequest |->
        [databaseId |-> 11, id |-> "PR_1", url |-> "https://host/pull/1",
         number |-> 1, state |-> "open", body |-> "body", bodyHTML |-> "<p>body</p>",
         title |-> "title", createdAt |-> "t0", updatedAt |-> "t1",
         headRef |-> h, baseRef |-> GraphQLRef("master"),
         author |-> GraphQLAuthor(u), merged |-> m, mergeable |-> g,
         labels |-> [nodes |-> <<>>], isDraft |-> Some(FALSE)]]] :
        u \in Users,
        h \in {Missing, GraphQLRef("feature")},
        m \in BOOLEAN,
        g \in {"MERGEABLE", "CONFLICTING", "UNKNOWN", "mergeable"} }

RESTIssueComments ==
    { [url |-> "https://api/comments/3", id |-> 3, user |-> RESTUser(u),
       body |-> "body", created_at |-> "t0",
       html_url |-> "https://host/pull/1#c3", node_id |-> "IC_3"] :
        u \in Users }

RESTReviewComments ==
    { [url |-> "https://api/comments/4", id |-> 4, pull_request_review_id |-> Some(5),
       diff_hunk |-> d, path |-> "a.ts", position |-> Some(1), commit_id |-> "c1",
       original_position |-> Some(1), original_commit_id |-> "c0",
       user |-> RESTUser(u), body |-> "body", created_at |-> "t0",
       html_url |-> "https://host/pull/1#r4", in_reply_to_id |-> r,
       node_id |-> "RC_4"] :
        u \in Users, d \in DiffHunkTexts, r \in {None, Some(2)} }

ReactionGroup(content, totalCount, viewerHasReacted) ==
    [content |-> content, users |-> [totalCount |-> totalCount],
     viewerHasReacted |-> viewerHasReacted]

ReactionGroupLists ==
    { <<>>,
      <<ReactionGroup("THUMBS_UP", 2, TRUE), ReactionGroup("HEART", 0, FALSE)>>,
      <<ReactionGroup("PARTY", 1, FALSE)>>,
      <<ReactionGroup("THUMBS_UP", 1, FALSE), ReactionGroup("PARTY", 0, FALSE)>> }

\* Reaction groups as GitHub sends them: one per content, with or without
\* users; PARTY is a content outside the eight of getReactionGroup.
ReactionGroups ==
    { ReactionGroup(c, n, n = 2) :
        c \in {"THUMBS_UP", "HEART", "PARTY"}, n \in {0, 1, 2} }

GraphQLComment(login, state, replyTo, reactionGroups, diffHunk) ==
    [databaseId |-> 4, id |-> "RC_4", url |-> "https://host/pull/1#r4",
     body |-> "body", path |-> "a.ts", viewerCanDelete |-> login = "A",
     viewerCanUpdate |-> state = "PENDING",
     pullRequestReview |-> [databaseId |-> 5], diffHunk |-> diffHunk,
     position |-> Some(1), commit |-> [oid |-> "c1"], originalPosition |-> Some(1),
     originalCommit |-> [oid |-> "c0"], author |-> GraphQLAuthor(login),
     createdAt |-> "t0", state |-> state, replyTo |-> replyTo,
     reactionGroups |-> reactionGroups]

GraphQLComments ==
    { GraphQLComment(u, st, r, g, d) :
        u \in Users, st \in {"PENDING", "SUBMITTED"},
        r \in {Missing, [databaseId |-> 2]},
        g \in ReactionGroupLists, d \in DiffHunkTexts }

RESTReviews ==
    { [submitted_at |-> "t2", body |-> "review", html_url |-> "https://host/pull/1#v5",
       user |-> RESTUser(u), state |-> st, id |-> 5] :
        u \in Users, st \in {"COMMENTED", "APPROVED"} }

\* The comments of a review: by either user, top-level or a reply.
ReviewNodes ==
    { GraphQLComment(u, "SUBMITTED", r, <<>>, "") :
        u \in Users, r \in {Missing, [databaseId |-> 2]} }

GraphQLReview(author, nodes) ==
    [__typename |-> "PullRequestReview", comments |-> [nodes |-> nodes],
     submittedAt |-> "t2", body |-> "review", bodyHTML |-> "<p>review</p>",
     url |-> "https://host/pull/1#v5", author |-> author,
     authorAssociation |-> "MEMBER", state |-> "COMMENTED", databaseId |-> 5]

GraphQLReviews ==
    { GraphQLReview(GraphQLAuthor(u), nodes) :
        u \in Users, nodes \in SeqsUpTo(ReviewNodes, MaxReviewComments) }

\* The discriminators GitHub sends: the seven of the dispatch table, two
\* event types the table does not list, and near misses of table entries.
UnknownTypenames == {"HeadRefDeletedEvent", "ReviewRequestedEvent"}
Typenames ==
    {"Commit", "LabeledEvent", "MilestonedEvent", "AssignedEvent", "IssueComment",
     "PullRequestReview", "MergedEvent"}
    \cup UnknownTypenames \cup {"commit", "Committed", "Other", ""}

\* Timeline events, one or two per discriminator; the author of a comment
\* is null when the account was deleted, a commit has a user or only a
\* committer name.
TimelineEvents ==
    { [__typename |-> "IssueComment", databaseId |-> 21, url |-> "https://host/pull/1#c21",
       body |-> "body", bodyHTML |-> "<p>body</p>", author |-> a,
       viewerCanUpdate |-> TRUE, viewerCanDelete |-> FALSE, createdAt |-> "t0",
       id |-> "IC_21"] : a \in {GraphQLAuthor("A"), Missing} }
    \cup { GraphQLReview(GraphQLAuthor("A"), nodes) :
                nodes \in {<<>>, <<GraphQLComment("B", "SUBMITTED", Missing, <<>>, "")>>} }
    \cup { [__typename |-> "Commit", databaseId |-> 22, id |-> "C_22", oid |-> "c1",
            author |-> [user |-> a], committer |-> [name |-> "committer"],
            url |-> "https://host/commit/c1", message |-> "message"] :
                a \in {GraphQLAuthor("A"), Missing} }
    \cup { [__typename |-> "MergedEvent", databaseId |-> 23, id |-> "ME_23",
            actor |-> GraphQLAuthor("A"), createdAt |-> "t3",
            mergeRef |-> [name |-> "master"],
            commit |-> [oid |-> "c2", commitUrl |-> "https://host/commit/c2"],
            url |-> "https://host/pull/1#e23"] }
    \cup { [__typename |-> "AssignedEvent", databaseId |-> 24, id |-> "AE_24",
            actor |-> GraphQLAuthor("A"), user |-> GraphQLAuthor("B")] }
    \cup { [__typename |-> "LabeledEvent", databaseId |-> 25, id |-> "LE_25",
            actor |-> GraphQLAuthor("A"), label |-> [name |-> "bug"]] }
    \cup { [__typename |-> "MilestonedEvent", databaseId |-> 26, id |-> "MS_26",
            actor |-> GraphQLAuthor("A"), milestoneTitle |-> "v1"] }
    \cup { [__typename |-> n, databaseId |-> 27, id |-> "EV_27",
            actor |-> GraphQLAuthor("A")] : n \in UnknownTypenames }

\* REST timeline entries, with the event type parseTimelineEvents gave
\* them; the user of a review is null when the account was deleted.
RESTTimelineEvents ==
    { [event |-> "Reviewed", id |-> 31, submitted_at |-> "t2",
       html_url |-> "https://host/pull/1#v31", user |-> u, body |-> "review",
       state |-> "approved", commit_id |-> "c1"] : u \in {RESTUser("A"), Missing} }
    \cup { [event |-> "Committed", sha |-> "c1", html_url |-> "https://host/commit/c1",
            author |-> [name |-> "A"], message |-> "message"] }
    \cup { [event |-> "Commented", id |-> 32, html_url |-> "https://host/pull/1#c32",
            user |-> RESTUser("B"), body |-> "body", created_at |-> "t0"] }
    \cup { [event |-> "Labeled", id |-> 33, label |-> [name |-> "bug"],
            actor |-> RESTUser("A"), created_at |-> "t1"] }
    \cup { [event |-> "Other", id |-> 34, created_at |-> "t1"] }

RESTTimelines == SeqsUpTo(RESTTimelineEvents, MaxEvents)

Timelines == SeqsUpTo(TimelineEvents, MaxEvents)

\* The same pull request, review comment or review in both source shapes:
\* the REST response and the GraphQL response agree on the underlying data.
SamePullRequest(r, g) ==
    LET p == g.repository.pullRequest
    IN /\ r.user.login = p.author.login
       /\ r.state = p.state
       /\ r.merged = Some(p.merged)
       /\ p.mergeable \in {"MERGEABLE", "CONFLICTING"}
       /\ r.mergeable = Some(p.mergeable = "MERGEABLE")
       /\ r.assignee = Missing
       /\ p.headRef # Missing

SameComment(r, g) ==
    /\ r.user.login = g.author.login
    /\ r.diff_hunk = g.diffHunk
    /\ (r.in_reply_to_id = None) = (g.replyTo = Missing)
    /\ g.state = "SUBMITTED"
    /\ g.reactionGroups = <<>>

SameReview(r, g) ==
    /\ r.user.login = g.author.login
    /\ r.state = g.state
    /\ g.comments.nodes = <<>>

PullRequestPairs ==
    { p \in [rest : RESTPullRequests, graphql : GraphQLPullRequests] :
        SamePullRequest(p.rest, p.graphql) }

CommentPairs ==
    { p \in [rest : RESTReviewComments, graphql : GraphQLComments] :
        SameComment(p.rest, p.graphql) }

ReviewPairs ==
    { p \in [rest : RESTReviews, graphql : GraphQLReviews] :
        SameReview(p.rest, p.graphql) }

Payload(kind, payloads) ==
    { [kind |-> kind, payload |-> p, githubRepository |-> r] :
        p \in payloads, r \in Repositories }

InitNormalizer ==
    /\ \/ input \in Payload("RESTUser", {RESTUser(u) : u \in Users})
       \/ input \in Payload("GraphQLAuthor", {GraphQLAuthor(u) : u \in Users})
       \/ input \in Payload("RESTPullRequest", RESTPullRequests)
       \/ input \in Payload("GraphQLPullRequest", GraphQLPullRequests)
       \/ input \in Payload("RESTIssueComment", RESTIssueComments)
       \/ input \in Payload("RESTReviewComment", RESTReviewComments)
       \/ input \in Payload("GraphQLComment", GraphQLComments)
       \/ input \in Payload("RESTReview", RESTReviews)
       \/ input \in Payload("GraphQLReview", GraphQLReviews)
       \/ input \in Payload("Timeline", Timelines)
       \/ input \in Payload("RESTTimeline", RESTTimelines)
       \/ input \in Payload("ReactionGroups", SeqsUpTo(ReactionGroups, MaxReactionGroups))
       \/ input \in Payload("Typename", {[__typename |-> n] : n \in Typenames})
       \/ input \in Payload("PullRequestModel", RESTPullRequests)
       \/ input \in Payload("PullRequestPair", PullRequestPairs)
       \/ input \in Payload("CommentPair", CommentPairs)
       \/ input \in Payload("ReviewPair", ReviewPairs)
    /\ output = [kind |-> "none"]

Returned(value) == [kind |-> "value", value |-> value]
Thrown == [kind |-> "thrown"]

\* A normalizer is applied to the payload of its shape, once.
Given(kind) ==
    /\ input.kind = kind
    /\ output.kind = "none"
    /\ UNCHANGED <<threads, lastOp, fetches, arrivals, input, emitter, promise,
                 provider, workbench>>

NormalizeRESTUser ==
    /\ Given("RESTUser")
    /\ output' = Returned(convertRESTUserToAccount(input.payload, input.githubRepository))

NormalizeGraphQLAuthor ==
    /\ Given("GraphQLAuthor")
    /\ output' = Returned(parseAuthor(input.payload, input.githubRepository))

NormalizeRESTPullRequest ==
    /\ Given("RESTPullRequest")
    /\ output' = Returned(convertRESTPullRequestToRawPullRequest(
                              input.payload, input.githubRepository))

NormalizeGraphQLPullRequest ==
    /\ Given("GraphQLPullRequest")
    /\ output' = Returned(parseGraphQLPullRequest(input.payload, input.githubRepository))

NormalizeRESTIssueComment ==
    /\ Given("RESTIssueComment")
    /\ output' = Returned(convertIssuesCreateCommentResponseToComment(
                              input.payload, input.githubRepository))

NormalizeRESTReviewComment ==
    /\ Given("RESTReviewComment")
    /\ output' = IF convertPullRequestsGetCommentsResponseItemToCommentThrows(input.payload)
                  THEN Thrown
                  ELSE Returned(convertPullRequestsGetCommentsResponseItemToComment(
                                    input.payload, input.githubRepository))

NormalizeGraphQLComment ==
    /\ Given("GraphQLComment")
    /\ output' = IF parseGraphQLCommentThrows(input.payload) THEN Thrown
                  ELSE Returned(parseGraphQLComment(input.payload))

NormalizeGraphQLReactions ==
    /\ Given("ReactionGroups")
    /\ output' = IF parseGraphQLReactionThrows(input.payload) THEN Thrown
                  ELSE Returned(parseGraphQLReaction(input.payload))

NormalizeRESTReview ==
    /\ Given("RESTReview")
    /\ output' = Returned(convertRESTReviewEvent(input.payload, input.githubRepository))

NormalizeGraphQLReview ==
    /\ Given("GraphQLReview")
    /\ output' = IF parseGraphQLReviewEventThrows(input.payload) THEN Thrown
                  ELSE Returned(parseGraphQLReviewEvent(
                                    input.payload, input.githubRepository))

NormalizeTimeline ==
    /\ Given("Timeline")
    /\ output' = IF parseGraphQLTimelineEventsThrows(input.payload) THEN Thrown
                  ELSE Returned(parseGraphQLTimelineEvents(
                                    input.payload, input.githubRepository))

\* convertRESTTimelineEvents patches the entries of the array it is given
\* and returns that array; `input` keeps the entries as they were passed.
NormalizeRESTTimeline ==
    /\ Given("RESTTimeline")
    /\ output' = IF convertRESTTimelineEventsThrowing(input.payload) # {}
                  THEN [kind |-> "thrown",
                        events |-> convertRESTTimelineEventsFailed(input.payload)]
                  ELSE Returned(convertRESTTimelineEvents(input.payload))

ConvertEventType ==
    /\ Given("Typename")
    /\ output' = Returned(convertGraphQLEventType(input.payload.__typename))

\* new PullRequestModel(repo, remote, convertRESTPullRequestToRawPullRequest(pr, repo))
CreatePullRequestModel ==
    /\ Given("PullRequestModel")
    /\ output' =
          LET item == convertRESTPullRequestToRawPullRequest(
                          input.payload, input.githubRepository)
          IN Returned([item |-> item, state |-> PullRequestModelState(item)])

\* Both normalizers applied to the two shapes of one entity.
Both(rest, graphql) == [rest |-> rest, graphql |-> graphql]

NormalizePullRequestPair ==
    /\ Given("PullRequestPair")
    /\ output' = Returned(Both(
           convertRESTPullRequestToRawPullRequest(input.payload.rest, input.githubRepository),
           parseGraphQLPullRequest(input.payload.graphql, input.githubRepository)))

NormalizeCommentPair ==
    /\ Given("CommentPair")
    /\ output' = IF \/ convertPullRequestsGetCommentsResponseItemToCommentThrows(
                            input.payload.rest)
                     \/ parseGraphQLCommentThrows(input.payload.graphql)
                  THEN Thrown
                  ELSE Returned(Both(
                           convertPullRequestsGetCommentsResponseItemToComment(
                               input.payload.rest, input.githubRepository),
                           parseGraphQLComment(input.payload.graphql)))

NormalizeReviewPair ==
    /\ Given("ReviewPair")
    /\ output' = IF parseGraphQLReviewEventThrows(input.payload.graphql) THEN Thrown
                  ELSE Returned(Both(
                           convertRESTReviewEvent(input.payload.rest, input.githubRepository),
                           parseGraphQLReviewEvent(input.payload.graphql,
                                                   input.githubRepository)))

NextNormalize ==
    \/ NormalizeRESTUser
    \/ NormalizeGraphQLAuthor
    \/ NormalizeRESTPullRequest
    \/ NormalizeGraphQLPullRequest
    \/ NormalizeRESTIssueComment
    \/ NormalizeRESTReviewComment
    \/ NormalizeGraphQLComment
    \/ NormalizeGraphQLReactions
    \/ NormalizeRESTReview
    \/ NormalizeGraphQLReview
    \/ NormalizeTimeline
    \/ NormalizeRESTTimeline
    \/ ConvertEventType
    \/ CreatePullRequestModel
    \/ NormalizePullRequestPair
    \/ NormalizeCommentPair
    \/ NormalizeReviewPair

InitNormalize == InitThreads /\ IdleFetches /\ InitNormalizer /\ NewEmitter /\ NewTree

SpecNormalize == InitNormalize /\ [][NextNormalize]_vars

(***************************************************************************)
(* promiseFromEvent (common/utils) on an EventEmitter, with the adapters   *)
(* of its tests.  A call of the emitter's fire runs the listener to its    *)
(* end; what a promise schedules (the `catch` of a promise the adapter     *)
(* returned, the continuation that disposes the subscription) waits in the *)
(* job queue and runs later, one job at a time.                            *)
(***************************************************************************)
Events == {"hell", "hello", "sesame", "mellon", "password"}

\* What an adapter does with an event before it returns.
Resolves(v) == [does |-> "resolve", value |-> Some(v), error |-> Undefined]
Rejects(e) == [does |-> "reject", value |-> None, error |-> e]
Throws(e) == [does |-> "throw", value |-> None, error |-> e]
ReturnsRejecting(e) == [does |-> "rejecting", value |-> None, error |-> e]
Silent == [does |-> "silent", value |-> None, error |-> Undefined]

\* The default adapter of promiseFromEvent.
passthrough(value) == Resolves(value)

\* The adapters of the tests.
count(str) ==
    IF Len(str) <= 4 THEN Resolves(Len(str)) ELSE Rejects("the string is too damn long")

kaboom(value) == Throws("kaboom")

asyncKaboom(value) == ReturnsRejecting("kaboom")

door(password) ==
    IF password = "sesame" THEN Resolves(TRUE)
    ELSE IF password = "mellon" THEN Rejects("wrong fable")
    ELSE Silent

Adapters == {"passthrough", "count", "kaboom", "asyncKaboom", "door"}

Adapt(adapter, value) ==
    CASE adapter = "passthrough" -> passthrough(value)
      [] adapter = "count" -> count(value)
      [] adapter = "kaboom" -> kaboom(value)
      [] adapter = "asyncKaboom" -> asyncKaboom(value)
      [] adapter = "door" -> door(value)

Pending == [state |-> "pending", value |-> None, error |-> Undefined]
Resolved(value) == [state |-> "resolved", value |-> value, error |-> Undefined]
Rejected(error) == [state |-> "rejected", value |-> None, error |-> error]

\* resolve / reject of the promise the listener feeds: the first call
\* settles it and schedules the continuation, later calls do nothing.
Settle(p, outcome) ==
    IF p.inner.state = "pending"
    THEN [p EXCEPT !.inner = outcome,
                   !.jobs = Append(@, [job |-> "then", error |-> Undefined])]
    ELSE p

\* promiseFromEvent whose listener holds on to the latest value.
promiseFromEventListenerLatest(p, value) ==
    LET a == Adapt(p.adapter, value)
    IN CASE a.does = "resolve" ->
                [p EXCEPT !.inner = Resolved(a.value),
                          !.jobs = Append(@, [job |-> "then", error |-> Undefined])]
         [] a.does \in {"reject", "throw"} -> Settle(p, Rejected(a.error))
         [] a.does = "rejecting" ->
                [p EXCEPT !.jobs = Append(@, [job |-> "catch", error |-> a.error])]
         [] a.does = "silent" -> p

\* promiseFromEvent whose listener does not catch what the adapter throws
\* or what the promise it returns rejects with.
promiseFromEventListenerNoCatch(p, value) ==
    LET a == Adapt(p.adapter, value)
    IN CASE a.does = "resolve" -> Settle(p, Resolved(a.value))
         [] a.does = "reject" -> Settle(p, Rejected(a.error))
         [] OTHER -> p

\* The listener promiseFromEvent subscribes: it hands the event to the
\* adapter together with resolve and reject, rejects with what the adapter
\* throws, and rejects later with what a promise the adapter returned
\* rejects with.
promiseFromEventListener(p, value) ==
    LET a == Adapt(p.adapter, value)
    IN CASE a.does = "resolve" -> Settle(p, Resolved(a.value))
         [] a.does \in {"reject", "throw"} -> Settle(p, Rejected(a.error))
         [] a.does = "rejecting" ->
                [p EXCEPT !.jobs = Append(@, [job |-> "catch", error |-> a.error])]
         [] a.does = "silent" -> p

\* promiseFromEvent(emitter.event, adapter): subscribes and returns a
\* promise.
Call(adapter) ==
    /\ promise.status = "none"
    /\ promise' = [status |-> "created", adapter |-> adapter,
                   since |-> Len(emitter.fired),
                   inner |-> Pending, outer |-> Pending, jobs |-> <<>>]
    /\ emitter' = [emitter EXCEPT !.listeners = @ + 1]
    /\ UNCHANGED <<threads, lastOp, fetches, arrivals, input, output,
                 provider, workbench>>

\* emitter.fire(value): every listener runs with the value.
Fire(value) ==
    /\ Len(emitter.fired) < MaxFires
    /\ emitter' = [emitter EXCEPT !.fired = Append(@, value)]
    /\ promise' = IF emitter.listeners > 0
                   THEN promiseFromEventListener(promise, value)
                   ELSE promise
    /\ UNCHANGED <<threads, lastOp, fetches, arrivals, input, output,
                 provider, workbench>>

\* The next job of the queue runs: the `catch` of a rejecting promise the
\* adapter returned calls reject; the continuation disposes the
\* subscription and settles the returned promise as the fed one.
RunJob ==
    /\ promise.status = "created"
    /\ promise.jobs # <<>>
    /\ LET job == Head(promise.jobs)
           rest == [promise EXCEPT !.jobs = Tail(@)]
       IN IF job.job = "catch"
          THEN /\ promise' = Settle(rest, Rejected(job.error))
               /\ UNCHANGED emitter
          ELSE /\ promise' = [rest EXCEPT !.outer = promise.inner]
               /\ emitter' = [emitter EXCEPT !.listeners = @ - 1]
    /\ UNCHANGED <<threads, lastOp, fetches, arrivals, input, output,
                 provider, workbench>>

NextPromise ==
    \/ \E adapter \in Adapters : Call(adapter)
    \/ \E value \in Events : Fire(value)
    \/ RunJob

SpecPromise == Init /\ [][NextPromise]_vars

\* The job queue always drains: a scheduled job runs.
SpecPromiseFair == Init /\ [][NextPromise]_vars /\ WF_vars(RunJob)

(***************************************************************************)
(* Sibling threads: the synchronizer's operations interleaved on two       *)
(* threads of one document, each thread built from its own comments.       *)
(***************************************************************************)
CreateSibling(t) ==
    /\ \E raws \in SeqsUpTo(FetchComments, MaxSiblingComments),
          inDraftMode \in BOOLEAN :
            CreateFrom(t, raws, inDraftMode, TRUE)
    /\ UNCHANGED <<fetches, arrivals, input, output, emitter, promise,
                 provider, workbench>>

\* updateCommentReactions(comment, reactions) on the thread's first comment.
UpdateReactions(t) ==
    /\ Bound(t)
    /\ threads[t].comments # <<>>
    /\ threads' = [threads EXCEPT ![t].comments[1] =
                      updateCommentReactions(@, FetchedReactions(1))]
    /\ lastOp' = OpAt("UpdateReactions", t, 1, FALSE)
    /\ UNCHANGED <<fetches, arrivals, input, output, emitter, promise,
                 provider, workbench>>

\* The host appends a comment that did not come through convertToVSCodeComment,
\* once per thread.
AddPlainSibling(t) ==
    /\ Bound(t)
    /\ \A i \in DOMAIN threads[t].comments : HasRaw(threads[t].comments[i])
    /\ threads' = [threads EXCEPT ![t].comments = Append(@, PlainComment("B"))]
    /\ lastOp' = Op("AddPlainComment", t, FALSE)
    /\ UNCHANGED <<fetches, arrivals, input, output, emitter, promise,
                 provider, workbench>>

NextSiblings ==
    \E t \in ThreadIds :
        \/ CreateSibling(t)
        \/ UpdateLabel(t)
        \/ UpdateReactions(t)
        \/ ExitDraftMode(t)
        \/ AddPlainSibling(t)

SpecSiblings == Init /\ [][NextSiblings]_vars

(***************************************************************************)
(* The comment list changing under the label: the owner of the thread adds, *)
(* edits and removes comments, and calls updateCommentThreadLabel after.    *)
(***************************************************************************)
AddComment(t) ==
    /\ Bound(t)
    /\ Len(threads[t].comments) < MaxFetchComments
    /\ \E raw \in FetchComments :
        threads' = [threads EXCEPT ![t].comments =
                        Append(@, convertToVSCodeComment(raw, Undefined))]
    /\ lastOp' = Op("AddComment", t, FALSE)
    /\ UNCHANGED <<fetches, arrivals, input, output, emitter, promise,
                 provider, workbench>>

EditComment(t) ==
    /\ Bound(t)
    /\ \E i \in DOMAIN threads[t].comments :
        /\ threads[t].comments[i].body # "edited"
        /\ threads' = [threads EXCEPT ![t].comments[i].body = "edited"]
        /\ lastOp' = OpAt("EditComment", t, i, FALSE)
    /\ UNCHANGED <<fetches, arrivals, input, output, emitter, promise,
                 provider, workbench>>

RemoveComment(t) ==
    /\ Bound(t)
    /\ \E i \in DOMAIN threads[t].comments :
        /\ threads' = [threads EXCEPT ![t].comments = RemoveAt(@, i)]
        /\ lastOp' = OpAt("RemoveComment", t, i, FALSE)
    /\ UNCHANGED <<fetches, arrivals, input, output, emitter, promise,
                 provider, workbench>>

NextLabel ==
    \E t \in OneThread :
        \/ CreateForFetch(t)
        \/ AddComment(t)
        \/ EditComment(t)
        \/ RemoveComment(t)
        \/ UpdateLabel(t)

SpecLabel == Init /\ [][NextLabel]_vars

(***************************************************************************)
(* The tree provider driven by the extension and the editor: initialize,   *)
(* the view asking for children, the queries setting changing, the         *)
(* refresh command, dispose.                                               *)
(***************************************************************************)
\* The disposable pushed under this name has not been disposed.
Registered(name) ==
    \E i \in DOMAIN provider._disposables :
        /\ i > provider.disposedUpTo
        /\ provider._disposables[i] = name

Initialize(prManager) ==
    /\ LET r == initialize(provider, prManager, workbench.queries)
       IN /\ provider' = r.provider
          /\ workbench' = [workbench EXCEPT
                              !.refreshPending = @ \/ r.fired,
                              !.call = [NoCall EXCEPT !.op = "initialize",
                                                      !.manager = prManager,
                                                      !.fault = r.fault,
                                                      !.fired = r.fired]]
    /\ UNCHANGED <<threads, lastOp, fetches, arrivals, input, output, emitter, promise>>

\* The view asks for the children of the root (element 0) or of a category
\* node it was given.
GetChildren ==
    /\ Registered("view")
    /\ \E env \in Environments,
          element \in {0} \cup {workbench.returned[i] : i \in DOMAIN workbench.returned} :
        LET r == getChildren(provider, workbench.nodes, element, env)
            categories == /\ provider._prManager # Undefined
                          /\ env.githubRemotes > 0
                          /\ element = 0
        IN /\ categories => workbench.roots < MaxRoots
           /\ provider' = r.provider
           /\ workbench' = [workbench EXCEPT
                               !.nodes = r.nodes,
                               !.returned = IF categories
                                            THEN [i \in DOMAIN r.result |-> r.result[i].id]
                                            ELSE @,
                               !.roots = IF categories THEN @ + 1 ELSE @,
                               !.refreshPending = IF element = 0 THEN FALSE ELSE @,
                               !.call = [NoCall EXCEPT !.op = "getChildren",
                                                       !.element = element,
                                                       !.githubRemotes = env.githubRemotes,
                                                       !.result = r.result]]
    /\ UNCHANGED <<threads, lastOp, fetches, arrivals, input, output, emitter, promise>>

\* The queries setting changes; the listener of initializeCategories, when
\* registered, reloads the queries and refreshes.
ChangeConfiguration ==
    /\ \E setting \in QuerySettings \ {workbench.queries} :
        LET listening == Registered("onDidChangeConfiguration")
        IN /\ provider' = IF listening THEN updateQueries(provider, setting) ELSE provider
           /\ workbench' = [workbench EXCEPT
                               !.queries = setting,
                               !.refreshPending = @ \/ listening,
                               !.call = [NoCall EXCEPT !.op = "onDidChangeConfiguration",
                                                       !.fired = listening]]
    /\ UNCHANGED <<threads, lastOp, fetches, arrivals, input, output, emitter, promise>>

\* The command pr.refreshList fires onDidChangeTreeData.
RefreshList ==
    /\ Registered("pr.refreshList")
    /\ workbench' = [workbench EXCEPT
                        !.refreshPending = TRUE,
                        !.call = [NoCall EXCEPT !.op = "pr.refreshList", !.fired = TRUE]]
    /\ UNCHANGED <<threads, lastOp, fetches, arrivals, input, output, emitter, promise,
                   provider>>

\* dispose(): everything in _disposables is disposed; the category nodes of
\* _childrenDisposables are not in it.
DisposeProvider ==
    /\ provider' = [provider EXCEPT !.disposedUpTo = Len(provider._disposables)]
    /\ workbench' = [workbench EXCEPT !.call = [NoCall EXCEPT !.op = "dispose"]]
    /\ UNCHANGED <<threads, lastOp, fetches, arrivals, input, output, emitter, promise>>

NextTree ==
    \/ \E prManager \in Managers : Initialize(prManager)
    \/ GetChildren
    \/ ChangeConfiguration
    \/ RefreshList
    \/ DisposeProvider

SpecTree == Init /\ [][NextTree]_vars

(***************************************************************************)
(* Claims about the thread label.                                          *)
(***************************************************************************)
UserNames(t) == [i \in 1..Len(threads[t].comments) |-> threads[t].comments[i].userName]

\* The names of a list, each once, in the order in which they first appear.
RECURSIVE FirstAppearances(_, _)
FirstAppearances(names, seen) ==
    IF names = <<>> THEN <<>>
    ELSE IF Head(names) \in seen THEN FirstAppearances(Tail(names), seen)
    ELSE <<Head(names)>> \o FirstAppearances(Tail(names), seen \cup {Head(names)})

RECURSIVE AtList(_)
AtList(names) ==
    IF Len(names) = 1 THEN "@" \o names[1]
    ELSE "@" \o names[1] \o ", " \o AtList(Tail(names))

After(ops, t) == lastOp.thread = t /\ lastOp.op \in ops

\* C1: after Create or updateCommentThreadLabel on a thread with at least one
\* comment, the label is "Participants: " followed by "@userName" for each
\* distinct userName in order of first appearance, joined by ", "; comments by
\* A, A, B give "Participants: @A, @B".
C1_ParticipantsLabel ==
    \A t \in ThreadIds :
        (After({"Create", "UpdateLabel"}, t) /\ Len(threads[t].comments) > 0) =>
            /\ threads[t].label =
                  "Participants: " \o AtList(FirstAppearances(UserNames(t), {}))
            /\ (UserNames(t) = <<"A", "A", "B">> =>
                    threads[t].label = "Participants: @A, @B")

C1_Witness ==
    /\ After({"Create"}, "t1")
    /\ UserNames("t1") = <<"A", "A", "B">>
    /\ threads["t1"].label = "Participants: @A, @B"

\* C2: Create on a thread with zero comments does not fail and leaves the
\* label set to the placeholder "Start discussion".
C2_EmptyThreadLabel ==
    \A t \in ThreadIds :
        (After({"Create"}, t) /\ threads[t].comments = <<>>) =>
            /\ ~lastOp.fault
            /\ threads[t].status = "Live"
            /\ threads[t].label = "Start discussion"

C2_Witness ==
    /\ After({"Create"}, "t1")
    /\ threads["t1"].comments = <<>>
    /\ threads["t1"].label = "Start discussion"

(***************************************************************************)
(* Claims about leaving draft mode.                                        *)
(***************************************************************************)
Cleared(c) == c._rawComment.isDraft = Some(FALSE) /\ c.label # "Pending"

AllCleared(thread) ==
    \A i \in 1..Len(thread.comments) : Cleared(thread.comments[i])

\* C3: after updateCommentReviewState(thread, false) every comment has
\* _rawComment.isDraft = false and none is labelled "Pending", and calling it
\* again leaves the thread as the first call left it.
C3_ExitDraftIdempotent ==
    \A t \in ThreadIds :
        After({"ExitDraftMode"}, t) =>
            /\ AllCleared(threads[t])
            /\ updateCommentReviewState(threads[t], FALSE).thread = threads[t]
            /\ ~updateCommentReviewState(threads[t], FALSE).fault

C3_Witness ==
    /\ After({"ExitDraftMode"}, "t1")
    /\ lastOp.changed
    /\ Len(threads["t1"].comments) >= 2
    /\ AllCleared(threads["t1"])

\* A step that is a call of updateCommentReviewState(thread, false) on t.
ExitDraftStep(t) == lastOp'.op = "ExitDraftMode" /\ lastOp'.thread = t

Rewritten(c) ==
    /\ c.label # "Pending"
    /\ HasRaw(c) => c._rawComment.isDraft = Some(FALSE)

\* C4 as claimed: whatever way updateCommentReviewState(thread, false) ends,
\* also when it throws at a comment without _rawComment, it leaves either
\* every comment rewritten or the thread as it was.
C4_ExitDraftAtomic ==
    [][\A t \in ThreadIds :
          ExitDraftStep(t) =>
              \/ \A i \in DOMAIN threads'[t].comments :
                    Rewritten(threads'[t].comments[i])
              \/ threads'[t] = threads[t]]_vars

\* C4 as amended: the call rewrites exactly the comments that precede the
\* first comment without _rawComment (all of them when there is none),
\* leaves that comment and the later ones as they were, and throws exactly
\* when there is such a comment.
C4_ExitDraftRewritesPrefix ==
    [][\A t \in ThreadIds :
          ExitDraftStep(t) =>
              LET old == threads[t].comments
                  new == threads'[t].comments
                  plain == {i \in DOMAIN old : ~HasRaw(old[i])}
              IN /\ DOMAIN new = DOMAIN old
                 /\ lastOp'.fault = (plain # {})
                 /\ \A i \in DOMAIN old :
                       IF \A j \in plain : i < j
                       THEN /\ new[i]._rawComment =
                                  [old[i]._rawComment EXCEPT !.isDraft = Some(FALSE)]
                            /\ new[i].label = Undefined
                            /\ new[i].userName = old[i].userName
                       ELSE new[i] = old[i]]_vars

\* A call that threw after clearing an earlier draft comment and before
\* reaching a later one.
C4_Witness ==
    /\ After({"ExitDraftMode"}, "t1")
    /\ lastOp.fault
    /\ lastOp.changed
    /\ \E i, j \in DOMAIN threads["t1"].comments :
          /\ i < j
          /\ HasRaw(threads["t1"].comments[i])
          /\ Cleared(threads["t1"].comments[i])
          /\ HasRaw(threads["t1"].comments[j])
          /\ threads["t1"].comments[j]._rawComment.isDraft = Some(TRUE)
          /\ threads["t1"].comments[j].label = "Pending"

(***************************************************************************)
(* Claims about the edit and delete commands.                              *)
(***************************************************************************)
\* The comments the last call derived commands for.
Derived(t) ==
    IF After({"Create"}, t) THEN DOMAIN threads[t].comments
    ELSE IF After({"UpdateCommands"}, t) THEN {lastOp.index}
    ELSE {}

\* C5 as claimed: after Create or updateCommentCommands, also when the
\* comment went through earlier calls with other capability flags, a comment
\* whose canEdit is not true has no editCommand and one whose canDelete is
\* not true has no deleteCommand.
C5_CommandsGatedByFlags ==
    \A t \in ThreadIds :
        \A i \in Derived(t) :
            LET c == threads[t].comments[i]
            IN /\ ~Truthy(c._rawComment.canEdit) => c.editCommand = Undefined
               /\ ~Truthy(c._rawComment.canDelete) => c.deleteCommand = Undefined

\* The commands are derived as claimed for a comment that had none.
C5_Witness ==
    /\ After({"Create"}, "t1")
    /\ \E i \in DOMAIN threads["t1"].comments :
          /\ Truthy(threads["t1"].comments[i]._rawComment.canEdit)
          /\ threads["t1"].comments[i].editCommand = getEditCommand
    /\ \E i \in DOMAIN threads["t1"].comments :
          /\ ~Truthy(threads["t1"].comments[i]._rawComment.canDelete)
          /\ threads["t1"].comments[i].deleteCommand = Undefined

(***************************************************************************)
(* Claims about the accounts the normalizers produce.                      *)
(***************************************************************************)
\* The accounts a normalized event carries.
EventAccounts(e) == {e[f] : f \in DOMAIN e \cap {"user", "author", "actor"}}

\* Every canonical Account in the normalizer's output.
OutputAccounts ==
    LET v == output.value
    IN CASE input.kind \in {"RESTUser", "GraphQLAuthor"} -> {v}
         [] input.kind = "RESTPullRequest" ->
                {v.user} \cup (IF v.assignee # Missing THEN {v.assignee} ELSE {})
         [] input.kind = "GraphQLPullRequest" -> {v.user}
         [] input.kind \in {"RESTIssueComment", "RESTReviewComment", "GraphQLComment"} ->
                {v.user}
         [] input.kind \in {"RESTReview", "GraphQLReview"} ->
                {v.user} \cup {v.comments[i].user : i \in DOMAIN v.comments}
         [] input.kind = "Timeline" -> UNION {EventAccounts(v[i]) : i \in DOMAIN v}
         [] OTHER -> {}

\* C6: for a repository that is not on github.com, every Account in the
\* output of every normalizer has avatarUrl undefined, whatever avatar URL
\* the payload supplied.
C6_AvatarSuppressed ==
    (output.kind = "value" /\ ~input.githubRepository.isGitHubDotCom)
        => \A a \in OutputAccounts : a.avatarUrl = Undefined

\* A GraphQL review comment whose author has an avatar URL has been
\* normalized for a repository that is not on github.com.
C6_Witness ==
    /\ input.kind = "GraphQLComment"
    /\ ~input.githubRepository.isGitHubDotCom
    /\ input.payload.author.avatarUrl # Undefined
    /\ output.kind = "value"

(***************************************************************************)
(* Claims about updates that arrive late.                                  *)
(***************************************************************************)
\* The reaction summary the editor shows for a fetched reaction list.
Shown(reactions) ==
    [j \in DOMAIN reactions |->
        [label |-> reactions[j].label, hasReacted |-> reactions[j].viewerHasReacted,
         count |-> reactions[j].count, iconPath |-> reactions[j].icon]]


\* The positions in `arrivals` of the completed fetches for comment i of t.
Arrived(t, i) ==
    {k \in DOMAIN arrivals : arrivals[k].thread = t /\ arrivals[k].index = i}

InFlight(t, i) == {f \in fetches : f.thread = t /\ f.index = i}

ExpectedLabel(names) ==
    IF names = <<>> THEN "Start discussion"
    ELSE "Participants: " \o AtList(FirstAppearances(names, {}))

\* A step that is a call of updateCommentThreadLabel, updateCommentReactions
\* or updateCommentReviewState(thread, false) on t.
UpdateStep(t) ==
    /\ lastOp'.thread = t
    /\ lastOp'.op \in {"UpdateLabel", "UpdateReactions", "ExitDraftMode"}

C8_NewestGenerationWins ==
    \A t \in ThreadIds :
        \A i \in DOMAIN threads[t].comments :
            (Arrived(t, i) # {} /\ InFlight(t, i) = {}) =>
                threads[t].comments[i].commentReactions =
                    Shown(FetchedReactions(
                        Max({arrivals[k].gen : k \in Arrived(t, i)})))

\* C8 as amended: there is no generation marker; a comment shows the
\* reactions of the fetch that completed last, whatever its generation.
C8_LastArrivalWins ==
    \A t \in ThreadIds :
        \A i \in DOMAIN threads[t].comments :
            Arrived(t, i) # {} =>
                threads[t].comments[i].commentReactions =
                    Shown(FetchedReactions(arrivals[Max(Arrived(t, i))].gen))

\* Two fetches for one comment completed newest first, and the comment shows
\* the older one's reactions.
C8_Witness ==
    \E i \in DOMAIN threads["t1"].comments :
        /\ Len(arrivals) = 2
        /\ Arrived("t1", i) = {1, 2}
        /\ arrivals[1].gen > arrivals[2].gen
        /\ threads["t1"].comments[i].commentReactions =
              Shown(FetchedReactions(arrivals[2].gen))

(***************************************************************************)
(* Claims about the timeline normalizer and its dispatch table.            *)
(***************************************************************************)
DispatchTable ==
    { <<"Commit", "Committed">>, <<"LabeledEvent", "Labeled">>,
      <<"MilestonedEvent", "Milestoned">>, <<"AssignedEvent", "Assigned">>,
      <<"IssueComment", "Commented">>, <<"PullRequestReview", "Reviewed">>,
      <<"MergedEvent", "Merged">> }

Dispatched(name) ==
    IF \E p \in DispatchTable : p[1] = name
    THEN (CHOOSE p \in DispatchTable : p[1] = name)[2]
    ELSE "Other"

\* The events of a timeline that the normalizer turns into an output event.
Surviving(events) ==
    LET pushes(e) ==
            Dispatched(e.__typename)
                \in {"Commented", "Reviewed", "Committed", "Merged", "Assigned"}
    IN SelectSeq(events, pushes)

\* The author the normalizer reads of an event; Missing when it is null.
AuthorRead(e) ==
    CASE Dispatched(e.__typename) \in {"Commented", "Reviewed"} -> e.author
      [] Dispatched(e.__typename) = "Merged" -> e.actor
      [] OTHER -> [read |-> FALSE]

\* C9 as stated: a normalized timeline has the length of its input, its i-th
\* event is of the type of the i-th input, and an event of a discriminator
\* outside the dispatch table is there as an Other event with no payload.
C9_TimelinePositional ==
    (input.kind = "Timeline" /\ output.kind = "value") =>
        /\ Len(output.value) = Len(input.payload)
        /\ \A i \in DOMAIN input.payload :
              /\ output.value[i].event = Dispatched(input.payload[i].__typename)
              /\ output.value[i].event = "Other" => DOMAIN output.value[i] = {"event"}

\* C9: a normalized timeline holds, in input order, exactly one event for
\* each input event of type Commented, Reviewed, Committed, Merged or
\* Assigned; Labeled and Milestoned events and events of a discriminator
\* outside the dispatch table are dropped, and no dropped event makes the
\* normalizer fail.
C9_TimelineKeepsPushedEvents ==
    (input.kind = "Timeline" /\ output.kind # "none") =>
        LET kept == Surviving(input.payload)
        IN /\ output.kind = "value" =>
                 /\ Len(output.value) = Len(kept)
                 /\ \A i \in DOMAIN kept :
                       /\ output.value[i].id = kept[i].databaseId
                       /\ output.value[i].event = Dispatched(kept[i].__typename)
           /\ (\A i \in DOMAIN kept : AuthorRead(kept[i]) # Missing)
                 => output.kind = "value"

\* A timeline with an event outside the dispatch table ahead of a comment
\* has been normalized to fewer events than it had.
C9_Witness ==
    /\ input.kind = "Timeline"
    /\ output.kind = "value"
    /\ \E i, j \in DOMAIN input.payload :
          /\ i < j
          /\ input.payload[i].__typename \in UnknownTypenames
          /\ input.payload[j].__typename = "IssueComment"
    /\ Len(output.value) < Len(input.payload)
    /\ Len(output.value) > 0

\* C10: convertGraphQLEventType returns, for every discriminator, the entry
\* of the dispatch table, and Other for a discriminator the table does not
\* list; it never fails.
C10_EventTypeByTable ==
    (input.kind = "Typename" /\ output.kind # "none") =>
        output = Returned(Dispatched(input.payload.__typename))

\* A discriminator outside the dispatch table has been converted to Other.
C10_Witness ==
    /\ input.kind = "Typename"
    /\ \A p \in DispatchTable : p[1] # input.payload.__typename
    /\ input.payload.__typename # ""
    /\ output = Returned("Other")

(***************************************************************************)
(* Claims about the Reviewed events the normalizers produce.               *)
(***************************************************************************)
\* The Reviewed events in the normalizer's output.
ReviewedEvents ==
    CASE input.kind \in {"RESTReview", "GraphQLReview"} -> {output.value}
      [] input.kind = "Timeline" ->
            {output.value[i] : i \in {j \in DOMAIN output.value :
                                          output.value[j].event = "Reviewed"}}
      [] OTHER -> {}

\* C11: no comment embedded in a Reviewed event has an inReplyToId, whatever
\* mix of top-level comments and replies the source review has.
C11_ReviewedHasNoReplies ==
    output.kind = "value" =>
        \A e \in ReviewedEvents :
            \A i \in DOMAIN e.comments : e.comments[i].inReplyToId = None

\* A review with a reply and a top-level comment has been normalized and
\* kept a comment.
C11_Witness ==
    /\ input.kind = "GraphQLReview"
    /\ output.kind = "value"
    /\ \E i, j \in DOMAIN input.payload.comments.nodes :
          /\ input.payload.comments.nodes[i].replyTo # Missing
          /\ input.payload.comments.nodes[j].replyTo = Missing
    /\ Len(output.value.comments) > 0

(***************************************************************************)
(* Claims about reactions.                                                 *)
(***************************************************************************)
ReactionTitles ==
    {"CONFUSED", "EYES", "HEART", "HOORAY", "LAUGH", "ROCKET", "THUMBS_DOWN", "THUMBS_UP"}

\* The groups of the payload whose content is none of the eight reactions.
UnrecognizedGroups ==
    {i \in DOMAIN input.payload : input.payload[i].content \notin ReactionTitles}

\* C12: normalizing reaction groups that include a group of unrecognized
\* content raises an error, whatever that group's user count.
C12_UnknownReactionRaises ==
    (input.kind = "ReactionGroups" /\ output.kind # "none" /\ UnrecognizedGroups # {})
        => output.kind = "thrown"

\* Reaction groups with an unrecognized group that has no users have been
\* normalized.
C12_Witness ==
    /\ input.kind = "ReactionGroups"
    /\ output.kind = "value"
    /\ \E i \in UnrecognizedGroups : input.payload[i].users.totalCount = 0

(***************************************************************************)
(* Claims about the fields of a normalized pull request.                   *)
(***************************************************************************)
\* C13: a REST response without a merged field normalizes to merged false
\* for every state, and merged is never undefined in the canonical record.
C13_MergedDefaultsToFalse ==
    (input.kind = "RESTPullRequest" /\ output.kind # "none") =>
        /\ output.kind = "value"
        /\ output.value.merged # None
        /\ input.payload.merged = None => output.value.merged = Some(FALSE)

\* A closed pull request of a list response has been normalized.
C13_Witness ==
    /\ input.kind = "RESTPullRequest"
    /\ input.payload.merged = None
    /\ input.payload.state = "closed"
    /\ output.kind = "value"
    /\ output.value.state = "closed"

\* C14: a GraphQL pull request normalizes to mergeable true exactly when the
\* upstream enum is MERGEABLE; UNKNOWN, CONFLICTING and any other value give
\* false.
C14_MergeableIffEnumMergeable ==
    (input.kind = "GraphQLPullRequest" /\ output.kind # "none") =>
        LET upstream == input.payload.repository.pullRequest.mergeable
        IN /\ output.kind = "value"
           /\ upstream = "MERGEABLE" => output.value.mergeable = Some(TRUE)
           /\ upstream # "MERGEABLE" => output.value.mergeable = Some(FALSE)

\* A pull request whose mergeability GitHub has not computed yet has been
\* normalized to not mergeable.
C14_Witness ==
    /\ input.kind = "GraphQLPullRequest"
    /\ input.payload.repository.pullRequest.mergeable = "UNKNOWN"
    /\ output.kind = "value"
    /\ output.value.mergeable = Some(FALSE)

(***************************************************************************)
(* Claims about the two source shapes of one entity.                       *)
(***************************************************************************)
PairKinds == {"PullRequestPair", "CommentPair", "ReviewPair"}

\* C15: the REST normalizer and the GraphQL normalizer return equal
\* canonical records, field for field, for the two shapes of the same pull
\* request, review comment or review.
C15_Convergence ==
    (input.kind \in PairKinds /\ output.kind # "none") =>
        /\ output.kind = "value"
        /\ output.value.rest = output.value.graphql

\* The two shapes of a review comment of a repository that is not on
\* github.com have both been normalized.
C15_Witness ==
    /\ input.kind = "CommentPair"
    /\ ~input.githubRepository.isGitHubDotCom
    /\ input.payload.rest.user.login = input.payload.graphql.author.login
    /\ output.kind = "value"

(***************************************************************************)
(* Claims about the pull-request model built from a REST response.         *)
(***************************************************************************)
\* C16: the normalizer carries state unchanged and merged true whenever the
\* response has merged true, and the model built from the record reports
\* Open for state open, Closed for state closed without merged, and Merged
\* for state closed with merged true.
C16_ModelStateFromREST ==
    (input.kind = "PullRequestModel" /\ output.kind # "none") =>
        LET pr == input.payload
            model == output.value
        IN /\ output.kind = "value"
           /\ model.item.state = pr.state
           /\ pr.merged = Some(TRUE) => model.item.merged = Some(TRUE)
           /\ pr.state = "open" => model.state = "Open"
           /\ (pr.state = "closed" /\ pr.merged # Some(TRUE)) => model.state = "Closed"
           /\ (pr.state = "closed" /\ pr.merged = Some(TRUE)) => model.state = "Merged"

\* A model has been built from a closed and merged pull request.
C16_Witness ==
    /\ input.kind = "PullRequestModel"
    /\ input.payload.state = "closed"
    /\ input.payload.merged = Some(TRUE)
    /\ output.kind = "value"
    /\ output.value.state = "Merged"

(***************************************************************************)
(* Claims about promiseFromEvent.                                          *)
(***************************************************************************)
\* The events fired since promiseFromEvent subscribed.
FiredSince ==
    SubSeq(emitter.fired, promise.since + 1, Len(emitter.fired))

\* C17: without an adapter the promise resolves with the value of the first
\* event fired after subscription, is never rejected, and events fired
\* later never change the value it resolved with.
C17_ResolvesWithFirstEvent ==
    (promise.status = "created" /\ promise.adapter = "passthrough") =>
        \A p \in {promise.inner, promise.outer} :
            /\ p.state # "rejected"
            /\ p.state = "resolved" =>
                  /\ FiredSince # <<>>
                  /\ p.value = Some(FiredSince[1])

\* Two different events were fired after subscription and the promise has
\* resolved with the first.
C17_Witness ==
    /\ promise.status = "created"
    /\ promise.adapter = "passthrough"
    /\ Len(FiredSince) >= 2
    /\ FiredSince[1] # FiredSince[2]
    /\ promise.outer = Resolved(Some(FiredSince[1]))

\* The events since subscription on which the adapter resolved, rejected,
\* threw or returned a rejecting promise.
Decisive ==
    {i \in DOMAIN FiredSince : Adapt(promise.adapter, FiredSince[i]) # Silent}

\* What the adapter decided on the first such event.
Decision ==
    LET a == Adapt(promise.adapter, FiredSince[Min(Decisive)])
    IN IF a.does = "resolve" THEN Resolved(a.value) ELSE Rejected(a.error)

\* C18: from the call on, while the adapter has decided on no event fired
\* so far the listener is registered and the promise is pending; the
\* listener is registered as long as the promise is pending; a settled
\* promise is settled as the adapter decided and the emitter has no
\* listener; and once the adapter has decided, the promise does settle and
\* the listener is removed.
C18_SubscribedUntilSettled ==
    /\ [](promise.status = "created" =>
            /\ Decisive = {} => promise.outer = Pending
            /\ promise.outer = Pending => emitter.listeners = 1
            /\ promise.outer # Pending =>
                  /\ Decisive # {}
                  /\ promise.outer = Decision
                  /\ emitter.listeners = 0)
    /\ ((promise.status = "created" /\ Decisive # {})
            ~> (promise.status = "created" /\ promise.outer # Pending
                    /\ emitter.listeners = 0))

\* The door adapter stayed silent on an event, then rejected on the next,
\* and the promise is rejected with no listener left.
C18_Witness ==
    /\ promise.status = "created"
    /\ promise.adapter = "door"
    /\ Len(FiredSince) >= 2
    /\ FiredSince[1] = "password"
    /\ FiredSince[2] = "mellon"
    /\ promise.outer = Rejected("wrong fable")
    /\ emitter.listeners = 0

(***************************************************************************)
(* Claims about what an update leaves alone.                               *)
(***************************************************************************)
\* C19: updateCommentReactions(comment, R) leaves the comment with exactly
\* one displayed reaction per element of R, in R's order, with label,
\* hasReacted, count and iconPath of that element, whatever it displayed
\* before; every other field of the comment, and every other comment, is
\* unchanged.
C19_ReactionsReplacedWholesale ==
    [][\A t \in ThreadIds :
         (/\ Len(arrivals') = Len(arrivals) + 1
          /\ arrivals'[Len(arrivals')].thread = t) =>
            LET i == arrivals'[Len(arrivals')].index
                R == FetchedReactions(arrivals'[Len(arrivals')].gen)
                old == threads[t].comments[i]
                new == threads'[t].comments[i]
            IN /\ Len(new.commentReactions) = Len(R)
               /\ \A j \in DOMAIN R :
                     /\ new.commentReactions[j].label = R[j].label
                     /\ new.commentReactions[j].hasReacted = R[j].viewerHasReacted
                     /\ new.commentReactions[j].count = R[j].count
                     /\ new.commentReactions[j].iconPath = R[j].icon
               /\ DOMAIN new = DOMAIN old
               /\ \A f \in DOMAIN old \ {"commentReactions"} : new[f] = old[f]
               /\ Len(threads'[t].comments) = Len(threads[t].comments)
               /\ \A k \in DOMAIN threads[t].comments \ {i} :
                     threads'[t].comments[k] = threads[t].comments[k]
      ]_vars

\* A draft comment that displayed two reactions has been given a list of
\* one and displays one.
C19_Witness ==
    \E t \in ThreadIds :
        \E i \in DOMAIN threads[t].comments :
            /\ Len(arrivals) = 2
            /\ \A k \in DOMAIN arrivals :
                  arrivals[k].thread = t /\ arrivals[k].index = i /\ arrivals[k].gen = k
            /\ Len(threads[t].comments[i].commentReactions) = 1
            /\ threads[t].comments[i].label = "Pending"

\* The fields convertRESTTimelineEvents adds to an entry of a type.
AddedFields(type) ==
    CASE type = "Reviewed" -> {"submittedAt", "htmlUrl", "authorAssociation"}
      [] type = "Committed" -> {"htmlUrl"}
      [] OTHER -> {}

\* C20: convertRESTTimelineEvents returns as many entries as it was given,
\* in the same order; every field an entry had keeps its value; a Reviewed
\* entry gains submittedAt, htmlUrl and authorAssociation, a Committed entry
\* htmlUrl, and an entry of any other type gains nothing.
C20_RESTTimelinePatchedInPlace ==
    (input.kind = "RESTTimeline" /\ output.kind = "value") =>
        /\ Len(output.value) = Len(input.payload)
        /\ \A i \in DOMAIN input.payload :
              LET old == input.payload[i]
                  new == output.value[i]
              IN /\ DOMAIN old \subseteq DOMAIN new
                 /\ \A f \in DOMAIN old : new[f] = old[f]
                 /\ DOMAIN new \ DOMAIN old = AddedFields(old.event)

\* A timeline with a review, a commit and an entry of another type has been
\* converted.
C20_Witness ==
    /\ input.kind = "RESTTimeline"
    /\ output.kind = "value"
    /\ \A type \in {"Reviewed", "Committed", "Labeled"} :
          \E i \in DOMAIN input.payload : input.payload[i].event = type
    /\ \E i \in DOMAIN output.value : "authorAssociation" \in DOMAIN output.value[i]

(***************************************************************************)
(* Claims about the fields of a normalized comment.                        *)
(***************************************************************************)
\* The diff hunk text of the comment payload, in either shape.
PayloadDiffHunk ==
    IF input.kind = "RESTReviewComment" THEN input.payload.diff_hunk
    ELSE input.payload.diffHunk

\* C21: when the diff-hunk parser fails on the comment's diff hunk, the
\* comment normalizer of either shape fails and returns no comment.
C21_HunkFailurePropagates ==
    (/\ input.kind \in {"RESTReviewComment", "GraphQLComment"}
     /\ output.kind # "none"
     /\ parseDiffHunkThrows(PayloadDiffHunk))
        => output = Thrown

\* A REST comment whose diff hunk breaks off after one hunk has gone
\* through its normalizer.
C21_Witness ==
    /\ input.kind = "RESTReviewComment"
    /\ input.payload.diff_hunk = DiffHunkTruncated
    /\ output.kind # "none"

C23_GraphQLCommentFlags ==
    (input.kind = "GraphQLComment" /\ output.kind = "value") =>
        /\ output.value.isDraft = Some(input.payload.state = "PENDING")
        /\ output.value.canEdit = Some(input.payload.viewerCanDelete)
        /\ output.value.canDelete = Some(input.payload.viewerCanDelete)
        /\ output.value.canEdit = output.value.canDelete

\* A pending comment the viewer may update but not delete was parsed.
C23_Witness ==
    /\ input.kind = "GraphQLComment"
    /\ output.kind = "value"
    /\ input.payload.state = "PENDING"
    /\ input.payload.viewerCanUpdate
    /\ ~input.payload.viewerCanDelete

(***************************************************************************)
(* Claims about the label over sequences of changes.                       *)
(***************************************************************************)
NamesOf(comments) == [i \in 1..Len(comments) |-> comments[i].userName]

\* C24: whatever was added, edited or removed since Create, a call of
\* updateCommentThreadLabel leaves the label derived from the comments the
\* thread has now ("Start discussion" when it has none, else the participants,
\* each once), changes nothing but the label, and a second call right after
\* would give the same thread.
C24_LabelFollowsComments ==
    [][\A t \in ThreadIds :
        (lastOp'.thread = t /\ lastOp'.op = "UpdateLabel") =>
            /\ threads'[t].label = ExpectedLabel(NamesOf(threads'[t].comments))
            /\ threads'[t] = [threads[t] EXCEPT !.label = threads'[t].label]
            /\ updateCommentThreadLabel(threads'[t]) = threads'[t]]_vars

\* The comments changed to two comments of B, and the label was recomputed.
C24_Witness ==
    /\ lastOp.op = "UpdateLabel"
    /\ lastOp.changed
    /\ UserNames("t1") = <<"B", "B">>
    /\ threads["t1"].label = "Participants: @B"

(***************************************************************************)
(* Claims about the comments a Reviewed event embeds.                      *)
(***************************************************************************)
\* The comments of a source review that are not replies, normalized, in
\* source order.
TopLevelComments(review) ==
    LET top == SelectSeq(review.comments.nodes, LAMBDA c : c.replyTo = Missing)
    IN [i \in DOMAIN top |-> parseGraphQLComment(top[i])]

SourceReviews ==
    CASE input.kind = "GraphQLReview" -> <<input.payload>>
      [] input.kind = "Timeline" ->
            SelectSeq(input.payload, LAMBDA e : e.__typename = "PullRequestReview")
      [] OTHER -> <<>>

OutputReviews ==
    CASE input.kind = "GraphQLReview" -> <<output.value>>
      [] input.kind = "Timeline" ->
            SelectSeq(output.value, LAMBDA e : e.event = "Reviewed")
      [] OTHER -> <<>>

\* C25: the comments of a Reviewed event are the source review's comments
\* that have no reply-to reference, each once and in source order, for the
\* event parseGraphQLReviewEvent returns and for the Reviewed entries of
\* parseGraphQLTimelineEvents alike.
C25_ReviewedEmbedsTopLevelComments ==
    (input.kind \in {"GraphQLReview", "Timeline"} /\ output.kind = "value") =>
        /\ Len(OutputReviews) = Len(SourceReviews)
        /\ \A k \in DOMAIN SourceReviews :
              OutputReviews[k].comments = TopLevelComments(SourceReviews[k])

\* A timeline with a review that has a top-level comment has been
\* normalized, and its Reviewed entry embeds no comment.
C25_Witness ==
    /\ input.kind = "Timeline"
    /\ output.kind = "value"
    /\ \E k \in DOMAIN SourceReviews :
          /\ TopLevelComments(SourceReviews[k]) # <<>>
          /\ OutputReviews[k].comments = <<>>

(***************************************************************************)
(* Claims about entering draft mode.                                       *)
(***************************************************************************)
IsDraft(comment) == HasRaw(comment) /\ comment._rawComment.isDraft = Some(TRUE)

\* C26: updateCommentReviewState(thread, true) returns without changing the
\* thread: comments, draft flags and labels stay as they were; and no call of
\* updateCommentReviewState, with either argument, gives a comment a draft
\* flag or a "Pending" label it did not have.
C26_EnterDraftModeChangesNothing ==
    [][\A t \in ThreadIds :
        /\ (lastOp'.thread = t /\ lastOp'.op = "EnterDraftMode") =>
                /\ threads'[t] = threads[t]
                /\ ~lastOp'.fault
        /\ (lastOp'.thread = t /\ lastOp'.op \in {"EnterDraftMode", "ExitDraftMode"}) =>
                /\ Len(threads'[t].comments) = Len(threads[t].comments)
                /\ \A i \in DOMAIN threads[t].comments :
                      /\ IsDraft(threads'[t].comments[i]) => IsDraft(threads[t].comments[i])
                      /\ threads'[t].comments[i].label = "Pending" =>
                            threads[t].comments[i].label = "Pending"]_vars

\* Draft mode was entered on a thread that shows a pending comment and a
\* submitted one.
C26_Witness ==
    /\ lastOp.op = "EnterDraftMode"
    /\ lastOp.thread = "t1"
    /\ ~lastOp.changed
    /\ \E i, j \in DOMAIN threads["t1"].comments :
          /\ threads["t1"].comments[i].label = "Pending"
          /\ IsDraft(threads["t1"].comments[i])
          /\ HasRaw(threads["t1"].comments[j])
          /\ threads["t1"].comments[j]._rawComment.isDraft = Some(FALSE)
          /\ threads["t1"].comments[j].label = Undefined

(***************************************************************************)
(* Claims about the "Pending" label of a comment.                          *)
(***************************************************************************)
\* C27: every comment made by convertToVSCodeComment, after any sequence of
\* updateCommentReviewState, updateCommentReactions, updateCommentCommands and
\* updateCommentThreadLabel calls, has the label "Pending" exactly when its
\* _rawComment.isDraft is true, and no label otherwise.
C27_PendingIffDraft ==
    \A t \in ThreadIds :
        \A i \in DOMAIN threads[t].comments :
            LET c == threads[t].comments[i]
            IN HasRaw(c) =>
                  c.label = IF c._rawComment.isDraft = Some(TRUE) THEN "Pending"
                            ELSE Undefined

\* A pending comment got reactions and kept its label, next to a comment
\* that is not a draft.
C27_Witness ==
    /\ lastOp.op = "UpdateReactions"
    /\ lastOp.thread = "t1"
    /\ threads["t1"].comments[lastOp.index].label = "Pending"
    /\ threads["t1"].comments[lastOp.index].commentReactions # <<>>
    /\ \E j \in DOMAIN threads["t1"].comments :
          threads["t1"].comments[j].label = Undefined

(***************************************************************************)
(* Claims about the reactions parseGraphQLReaction returns.                *)
(***************************************************************************)
\* The groups somebody reacted to, in the order of the payload.
NonEmptyGroups == SelectSeq(input.payload, LAMBDA g : g.users.totalCount > 0)

\* C28: parseGraphQLReaction removes the groups with users.totalCount 0
\* before it looks anything up: a group nobody reacted to never makes it
\* throw, and what it returns is one reaction per remaining group, in the
\* order of the input, each with count > 0 and with the group's count and
\* viewerHasReacted.
C28_ReactionsOfNonEmptyGroups ==
    (input.kind = "ReactionGroups" /\ output.kind # "none") =>
        /\ output.kind = "thrown" =>
              \E i \in DOMAIN NonEmptyGroups :
                  NonEmptyGroups[i].content \notin ReactionTitles
        /\ output.kind = "value" =>
              /\ Len(output.value) = Len(NonEmptyGroups)
              /\ \A i \in DOMAIN NonEmptyGroups :
                    /\ output.value[i].count > 0
                    /\ output.value[i].count = NonEmptyGroups[i].users.totalCount
                    /\ output.value[i].viewerHasReacted = NonEmptyGroups[i].viewerHasReacted
                    /\ output.value[i].label = ReactionMapping(NonEmptyGroups[i].content).label

\* A group nobody reacted to, of a content outside the table, came before a
\* group with reactions, and one reaction was returned.
C28_Witness ==
    /\ input.kind = "ReactionGroups"
    /\ input.payload = <<ReactionGroup("PARTY", 0, FALSE), ReactionGroup("THUMBS_UP", 2, TRUE)>>
    /\ output.kind = "value"
    /\ Len(output.value) = 1

(***************************************************************************)
(* Claims about the tree provider.                                         *)
(***************************************************************************)
InitializeStep == workbench'.call.op = "initialize" /\ workbench' # workbench

\* C29: the first initialize sets the manager, loads the queries from the
\* setting, registers the configuration listener and fires a refresh; every
\* later call throws and leaves the provider's manager, queries and
\* disposables as they were; and no step makes an initialized provider
\* uninitialized.
C29_InitializeOnce ==
    [][/\ (InitializeStep /\ ~provider._initialized) =>
            /\ ~workbench'.call.fault
            /\ provider'._initialized
            /\ provider'._prManager = workbench'.call.manager
            /\ provider'._queries =
                  (IF workbench.queries = None THEN Some(<<>>) ELSE workbench.queries)
            /\ workbench'.call.fired
            /\ workbench'.refreshPending
       /\ (InitializeStep /\ provider._initialized) =>
            /\ workbench'.call.fault
            /\ ~workbench'.call.fired
            /\ provider' = provider
       /\ provider._initialized => provider'._initialized]_vars

\* initialize was called with another manager on a provider that already
\* had one, and threw.
C29_Witness ==
    /\ workbench.call.op = "initialize"
    /\ workbench.call.fault
    /\ workbench.call.manager = "m2"
    /\ provider._prManager = "m1"
    /\ provider._queries = Some(QueryInfos)

Undisposed == {n \in DOMAIN workbench.nodes : ~workbench.nodes[n].disposed}

LastReturned == {workbench.returned[i] : i \in DOMAIN workbench.returned}

\* The categories the setting asks for.
Configured ==
    LET queries == IF workbench.queries = None THEN <<>> ELSE workbench.queries[1]
    IN <<[type |-> "LocalPullRequest", label |-> Undefined]>>
       \o [i \in DOMAIN queries |-> [type |-> "Query", label |-> queries[i].label]]
       \o <<[type |-> "All", label |-> Undefined]>>

RootCall ==
    /\ workbench.call.op = "getChildren"
    /\ workbench.call.element = 0
    /\ workbench.call.githubRemotes > 0
    /\ provider._prManager # Undefined

\* C30: only category nodes of the most recent root-level result are
\* undisposed; and a root-level call with a manager and a GitHub remote
\* returns new, undisposed nodes: the local category, one category per
\* configured query in the order of the setting, the category of all pull
\* requests.
C30_RootChildren ==
    /\ Undisposed \subseteq LastReturned
    /\ RootCall =>
          /\ Len(workbench.call.result) = Len(Configured)
          /\ \A i \in DOMAIN Configured :
                LET n == workbench.nodes[workbench.call.result[i].id]
                IN /\ n.type = Configured[i].type
                   /\ n.label = Configured[i].label
                   /\ ~n.disposed
          /\ Undisposed = LastReturned

\* The root was asked for a second time, after the setting changed the
\* order of the queries; the first nodes are disposed.
C30_Witness ==
    /\ RootCall
    /\ workbench.roots = 2
    /\ workbench.queries = Some(<<QueryInfos[2], QueryInfos[1]>>)
    /\ Len(workbench.nodes) > Len(workbench.call.result)
    /\ workbench.nodes[1].disposed

====
